---- MODULE Spec2Model ----
(***************************************************************************)
(* Model of snippets/splitter.py: LatexProjectSplitter.                    *)
(*                                                                         *)
(* Strings the code inspects character by character (titles, file names,   *)
(* paths) are sequences of one-character strings.  A text file is the      *)
(* sequence of its lines (what read_text().splitlines() yields); a line is *)
(* a sequence of tokens [k, v, p]: k = "txt" is literal text v, k = "inp"  *)
(* is an \input{p} directive, k = "comment" is a generated % comment and   *)
(* k = "marker" the generated "% Expanded from: \input{p}" comment.       *)
(* Indices are 1-based here; the code's 0-based index i is i+1.            *)
(***************************************************************************)
EXTENDS Integers, Sequences, FiniteSets, TLC

VARIABLES
    fs,                  \* the file system: path (relative to base_path) -> file
    scan_order,          \* the order in which the OS enumerates the files (rglob)
    data,                \* split(data, ...): the caller's list of records
    output_dir,          \* split(..., output_dir, ...)
    include_subsections, \* split(..., include_subsections, ...)
    validate,            \* split(..., validate)
    pc,                  \* position of the split call
    filtered_data,       \* local of split
    issues,              \* local of split: the validator's result
    idx,                 \* local of split: loop position (1-based)
    filename_counts,     \* local of split: names already allocated
    output_files,        \* local of split: title -> output path (the return value)
    writes,              \* history of write_text calls: <<[path, content]>>
    before,              \* history: the files, the mapping and the writes of
                         \* the previous call of split, None when there was none
    dependencies,        \* LatexDependencyCollector.dependencies
    processed_files,     \* LatexDependencyCollector.processed_files
    calls,               \* the active calls of _collect_dependencies_recursive,
                         \* innermost last
    parsed,              \* history: the paths given to _parse_file_dependencies
    cpc,                 \* position of the collect_dependencies call
    brace_text,          \* _find_brace_end(text, start): the arguments of the
    start,               \* last call (0-based position, as in the code)
    brace_end            \* and what it returned, None before the first call

splitter_vars ==
    <<data, output_dir, include_subsections, validate, pc, filtered_data, issues,
      idx, filename_counts, output_files, writes, before>>

collector_vars == <<dependencies, processed_files, calls, parsed, cpc>>

parser_vars == <<brace_text, start, brace_end>>

vars == <<fs, scan_order, splitter_vars, collector_vars, parser_vars>>

(***************************************************************************)
(* Bounds of the model.                                                    *)
(***************************************************************************)
MaxRecs == 3
MaxLayout == 4
MaxChain == 13
MaxDirectives == 2
MaxText == 5

(***************************************************************************)
(* Optional values: None is the empty sequence, a value x is <<x>>.        *)
(***************************************************************************)
None == <<>>
Some(x) == <<x>>
NoFile == <<>>

(***************************************************************************)
(* Character strings.                                                      *)
(***************************************************************************)
Tex == <<".", "t", "e", "x">>

EndsWith(s, suffix) ==
    /\ Len(s) >= Len(suffix)
    /\ SubSeq(s, Len(s) - Len(suffix) + 1, Len(s)) = suffix

Contains(s, ch) == \E p \in 1..Len(s) : s[p] = ch

\* str.replace(old, '_') for every one-character old in chars
ReplaceChars(s, chars) ==
    [p \in 1..Len(s) |-> IF s[p] \in chars THEN "_" ELSE s[p]]

\* one pass of str.replace('__', '_'): left to right, non-overlapping
RECURSIVE ReplaceDoubleUnderscore(_)
ReplaceDoubleUnderscore(s) ==
    IF Len(s) < 2 THEN s
    ELSE IF s[1] = "_" /\ s[2] = "_"
         THEN <<"_">> \o ReplaceDoubleUnderscore(SubSeq(s, 3, Len(s)))
         ELSE <<s[1]>> \o ReplaceDoubleUnderscore(Tail(s))

HasDoubleUnderscore(s) ==
    \E p \in 1..(Len(s) - 1) : s[p] = "_" /\ s[p + 1] = "_"

\* while '__' in filename: filename = filename.replace('__', '_')
RECURSIVE CollapseUnderscores(_)
CollapseUnderscores(s) ==
    IF HasDoubleUnderscore(s)
    THEN CollapseUnderscores(ReplaceDoubleUnderscore(s))
    ELSE s

\* str.strip('_')
RECURSIVE LStrip(_)
LStrip(s) == IF s # <<>> /\ s[1] = "_" THEN LStrip(Tail(s)) ELSE s

RECURSIVE RStrip(_)
RStrip(s) ==
    IF s # <<>> /\ s[Len(s)] = "_" THEN RStrip(SubSeq(s, 1, Len(s) - 1)) ELSE s

Strip(s) == RStrip(LStrip(s))

\* str(counter) in an f-string: decimal digits
Digit == <<"0", "1", "2", "3", "4", "5", "6", "7", "8", "9">>

RECURSIVE Decimal(_)
Decimal(n) ==
    IF n < 10 THEN <<Digit[n + 1]>>
    ELSE Decimal(n \div 10) \o <<Digit[(n % 10) + 1]>>

\* str(level) in an f-string
LevelChars(level) ==
    CASE level = "chapter" -> <<"c", "h", "a", "p", "t", "e", "r">>
      [] level = "section" -> <<"s", "e", "c", "t", "i", "o", "n">>
      [] level = "subsection" -> <<"s", "u", "b", "s", "e", "c", "t", "i", "o", "n">>
      [] level = "paragraph" -> <<"p", "a", "r", "a", "g", "r", "a", "p", "h">>

(***************************************************************************)
(* _sanitize_filename                                                      *)
(***************************************************************************)
invalid_chars == {"<", ">", ":", "\"", "/", "\\", "|", "?", "*"}

SanitizeFilename(title) ==
    LET spaces == ReplaceChars(title, {" "})
        valid == ReplaceChars(spaces, invalid_chars)
    IN  Strip(CollapseUnderscores(valid))

(***************************************************************************)
(* Paths.  A path is the sequence of the components of its text (the text  *)
(* split at the separators), each component a character string; it is      *)
(* relative to base_path, and <<"..", x>> is outside the project root.     *)
(***************************************************************************)
DotDot == <<".", ".">>

FirstSlash(s) ==
    CHOOSE p \in 1..Len(s) : s[p] = "/" /\ \A q \in 1..(p - 1) : s[q] # "/"

\* the components of a character string: str.split('/')
RECURSIVE Components(_)
Components(s) ==
    IF ~Contains(s, "/") THEN <<s>>
    ELSE <<SubSeq(s, 1, FirstSlash(s) - 1)>>
             \o Components(SubSeq(s, FirstSlash(s) + 1, Len(s)))

IsRealPart(c) == c # <<>> /\ c # <<".">>

\* pathlib: base_path / p drops empty and "." components, keeps ".."
PurePath(p) == SelectSeq(p, IsRealPart)

\* the operating system's view: ".." steps out of the directory before it
RECURSIVE ResolveDots(_, _)
ResolveDots(parts, done) ==
    IF parts = <<>> THEN done
    ELSE IF parts[1] = DotDot /\ done # <<>> /\ done[Len(done)] # DotDot
         THEN ResolveDots(Tail(parts), SubSeq(done, 1, Len(done) - 1))
         ELSE ResolveDots(Tail(parts), Append(done, parts[1]))

\* the file-system key a path denotes
FileKey(p) == ResolveDots(PurePath(p), <<>>)

IsProperPrefix(a, b) == Len(a) < Len(b) /\ SubSeq(b, 1, Len(a)) = a

\* Path.is_file / Path.is_dir / Path.exists on base_path / p
IsFile(files, p) == FileKey(p) \in DOMAIN files

IsDir(files, p) ==
    \/ FileKey(p) = <<>>
    \/ \E f \in DOMAIN files : IsProperPrefix(FileKey(p), f)

Exists(files, p) == IsFile(files, p) \/ IsDir(files, p)

\* Path.parent
Parent(p) ==
    IF PurePath(p) = <<>> THEN <<>>
    ELSE SubSeq(PurePath(p), 1, Len(PurePath(p)) - 1)

UnderBase(p) == PurePath(p) = <<>> \/ PurePath(p)[1] # DotDot

\* base_path.rglob(name): the files under base_path named name, in the
\* order the operating system enumerates them
RGlob(files, order, name) ==
    LET Matches(p) == p \in DOMAIN files /\ UnderBase(p) /\ p[Len(p)] = name
    IN  SelectSeq(order, Matches)

(***************************************************************************)
(* _find_file_path(file_path, relative_to): Some(path) or None.            *)
(* relative_to is None or Some(path of the current file).  The replace of  *)
(* '\\' by '/' is the identity on a path already split at its separators.  *)
(***************************************************************************)
\* FindFilePath with the directory of the current file tried first
FindFilePathRelativeFirst(files, order, file_path, relative_to) ==
    LET direct_path == PurePath(file_path)
        relative_path ==
            IF relative_to = None THEN <<>>
            ELSE PurePath(Parent(relative_to[1]) \o file_path)
        found == IF Len(file_path) = 1
                 THEN RGlob(files, order, file_path[1])
                 ELSE <<>>
    IN  IF relative_to # None /\ Exists(files, relative_path)
        THEN Some(relative_path)
        ELSE IF Exists(files, direct_path) THEN Some(direct_path)
        ELSE IF found # <<>> THEN Some(found[1])
        ELSE None

FindFilePath(files, order, file_path, relative_to) ==
    LET direct_path == PurePath(file_path)
        relative_path ==
            IF relative_to = None THEN <<>>
            ELSE PurePath(Parent(relative_to[1]) \o file_path)
        found == IF Len(file_path) = 1
                 THEN RGlob(files, order, file_path[1])
                 ELSE <<>>
    IN  IF Exists(files, direct_path) THEN Some(direct_path)
        ELSE IF /\ relative_to # None
                /\ IsDir(files, relative_to[1])
                /\ Exists(files, relative_path)
             THEN Some(relative_path)
        ELSE IF found # <<>> THEN Some(found[1])
        ELSE None

\* path text with '.tex' appended / removed
EndsWithTex(p) == p # <<>> /\ EndsWith(p[Len(p)], Tex)

AddTex(p) ==
    IF p = <<>> THEN <<Tex>> ELSE [p EXCEPT ![Len(p)] = p[Len(p)] \o Tex]

DropTex(p) ==
    [p EXCEPT ![Len(p)] = SubSeq(p[Len(p)], 1, Len(p[Len(p)]) - Len(Tex))]

(***************************************************************************)
(* Lines and texts.  A token is [k, v, p]: v holds pieces of text, p a     *)
(* path.                                                                   *)
(***************************************************************************)
Txt(name) == <<[k |-> "txt", v |-> <<name>>, p |-> <<>>]>>
Input(path) == <<[k |-> "inp", v |-> <<>>, p |-> path]>>

\* f"% {level}: {title}"
HeaderLine(entry) ==
    <<[k |-> "comment", v |-> <<"% ", entry.level, ": ">> \o entry.title,
       p |-> <<>>]>>

\* f"% <what>{detail}{path}"
CommentLine(what, detail, path) ==
    <<[k |-> "comment", v |-> <<what>> \o detail, p |-> path]>>

\* MarkerLine that does not name the file
MarkerLineBare(relative_path_str) ==
    <<[k |-> "comment", v |-> <<"% Expanded from: ">>, p |-> <<>>]>>

\* f"% Expanded from: \\input{{{relative_path_str}}}"
MarkerLine(relative_path_str) ==
    <<[k |-> "marker", v |-> <<>>, p |-> relative_path_str]>>

\* '\n'.join(lines) + '\n', read back as lines: the empty list gives the
\* text "\n", one empty line
JoinLines(lines) == IF lines = <<>> THEN << <<>> >> ELSE lines

\* re.search(r'\\input\{([^}]+)\}', line): position of the first token that
\* holds an \input{...} with a non-empty argument, 0 when there is none.
\* The marker comment holds the text \input{...} too.
IsInputToken(tok) == tok.k \in {"inp", "marker"} /\ tok.p # <<>>

\* InputMatch that takes the last \input{...} of the line
InputMatchLast(line) ==
    IF \E p \in 1..Len(line) : IsInputToken(line[p])
    THEN CHOOSE p \in 1..Len(line) :
             IsInputToken(line[p]) /\ \A q \in (p + 1)..Len(line) : ~IsInputToken(line[q])
    ELSE 0

InputMatch(line) ==
    IF \E p \in 1..Len(line) : IsInputToken(line[p])
    THEN CHOOSE p \in 1..Len(line) :
             IsInputToken(line[p]) /\ \A q \in 1..(p - 1) : ~IsInputToken(line[q])
    ELSE 0

(***************************************************************************)
(* level_hierarchy.get(level, 99)                                          *)
(***************************************************************************)
level_hierarchy == [chapter |-> 1, section |-> 2, subsection |-> 3]

\* LevelRank with subsections ranked as sections
LevelRankFlat(level) ==
    IF level = "chapter" THEN 1
    ELSE IF level \in {"section", "subsection"} THEN 2
    ELSE 99

LevelRank(level) ==
    IF level \in DOMAIN level_hierarchy THEN level_hierarchy[level] ELSE 99

(***************************************************************************)
(* Reading a file: read_text raises for a directory and for a file that    *)
(* cannot be read.                                                         *)
(***************************************************************************)
\* Readable with every file taken as readable
ReadableAlways(files, p) == IsFile(files, p)

Readable(files, p) == IsFile(files, p) /\ files[FileKey(p)].readable

ReadLines(files, p) == files[FileKey(p)].lines

(***************************************************************************)
(* expand_inputs(line, current_file, depth), the closure inside            *)
(* _extract_section_content.  processed is the closure's processed_inputs  *)
(* set; the result carries the lines returned and the set afterwards.      *)
(***************************************************************************)
MaxInputDepth == 10

\* TooDeep with the cap reached one level early
TooDeepEarly(depth) == depth >= MaxInputDepth

\* "if depth > 10: return [line]"
TooDeep(depth) == depth > MaxInputDepth

\* Released with the file left in the set
ReleasedNever(processed, input_file) == processed

\* processed_inputs.remove(input_file)
Released(processed, input_file) == processed \ {input_file}

RECURSIVE ExpandInputs(_, _, _, _, _, _)
RECURSIVE ExpandLines(_, _, _, _, _, _)

ExpandInputs(files, order, line, current_file, depth, processed) ==
    LET keep == [lines |-> <<line>>, processed |-> processed] IN
    IF TooDeep(depth) THEN keep
    ELSE IF InputMatch(line) = 0 THEN keep
    ELSE
      LET original_input_path == line[InputMatch(line)].p
          input_file == IF EndsWithTex(original_input_path)
                        THEN original_input_path
                        ELSE AddTex(original_input_path)
          input_path == FindFilePath(files, order, input_file, Some(current_file))
      IN
      IF input_file \in processed THEN keep
      ELSE IF input_path # None /\ Exists(files, input_path[1])
      THEN
        IF ~Readable(files, input_path[1])
        THEN \* read_text raises after processed_inputs.add: except -> [line]
             [lines |-> <<line>>, processed |-> processed \cup {input_file}]
        ELSE
          LET relative_path_str ==
                  IF EndsWithTex(input_path[1])
                  THEN DropTex(input_path[1])
                  ELSE input_path[1]
              expanded == ExpandLines(files, order, ReadLines(files, input_path[1]),
                                      input_path[1], depth + 1,
                                      processed \cup {input_file})
          IN  [lines |-> <<MarkerLine(relative_path_str)>> \o expanded.lines,
               processed |-> Released(expanded.processed, input_file)]
      ELSE keep

\* for l in lines: result.extend(expand_inputs(l, current_file, depth))
ExpandLines(files, order, lines, current_file, depth, processed) ==
    IF lines = <<>> THEN [lines |-> <<>>, processed |-> processed]
    ELSE
      LET first == ExpandInputs(files, order, lines[1], current_file, depth, processed)
          rest == ExpandLines(files, order, Tail(lines), current_file, depth,
                              first.processed)
      IN  [lines |-> first.lines \o rest.lines, processed |-> rest.processed]

(***************************************************************************)
(* _extract_section_content(entry, all_entries, current_index)             *)
(***************************************************************************)
\* EntryFilePath without the test that the search found the file
EntryFilePathUnchecked(files, order, entry) ==
    IF Exists(files, PurePath(entry.file)) THEN Some(PurePath(entry.file))
    ELSE
      LET found == FindFilePath(files, order, entry.file, None) IN
      IF found = None THEN Some(PurePath(entry.file)) ELSE found

\* the path the entry's file resolves to: Some(path) or None
EntryFilePath(files, order, entry) ==
    IF Exists(files, PurePath(entry.file)) THEN Some(PurePath(entry.file))
    ELSE
      LET found == FindFilePath(files, order, entry.file, None) IN
      IF found = None \/ ~Exists(files, found[1]) THEN None ELSE found

\* FindEndLine with the scan going on past a record of another file
RECURSIVE FindEndLineSameFile(_, _, _, _)
FindEndLineSameFile(entry, all_entries, i, n) ==
    IF i > Len(all_entries) THEN n
    ELSE IF /\ LevelRank(all_entries[i].level) <= LevelRank(entry.level)
            /\ all_entries[i].file = entry.file
            /\ all_entries[i].line # None
            /\ all_entries[i].line[1] # 0
         THEN all_entries[i].line[1] - 1
         ELSE FindEndLineSameFile(entry, all_entries, i + 1, n)

\* FindEndLine with the boundary's own line taken into the content
RECURSIVE FindEndLineInclusive(_, _, _, _)
FindEndLineInclusive(entry, all_entries, i, n) ==
    IF i > Len(all_entries) THEN n
    ELSE IF LevelRank(all_entries[i].level) <= LevelRank(entry.level)
         THEN IF /\ all_entries[i].file = entry.file
                 /\ all_entries[i].line # None
                 /\ all_entries[i].line[1] # 0
              THEN all_entries[i].line[1]
              ELSE n
         ELSE FindEndLineInclusive(entry, all_entries, i + 1, n)

\* the loop that finds end_line (a 0-based exclusive index = number of the
\* last line taken); n is len(lines)
RECURSIVE FindEndLine(_, _, _, _)
FindEndLine(entry, all_entries, i, n) ==
    IF i > Len(all_entries) THEN n
    ELSE IF LevelRank(all_entries[i].level) <= LevelRank(entry.level)
         THEN IF /\ all_entries[i].file = entry.file
                 /\ all_entries[i].line # None
                 /\ all_entries[i].line[1] # 0
              THEN all_entries[i].line[1] - 1
              ELSE n
         ELSE FindEndLine(entry, all_entries, i + 1, n)

Min(a, b) == IF a <= b THEN a ELSE b

\* InvalidLineNumber without the upper bound
InvalidLineNumberLow(entry, lines) == entry.line[1] - 1 < 0

\* start_line < 0 or start_line >= len(lines), start_line = entry['line'] - 1
InvalidLineNumber(entry, lines) ==
    entry.line[1] - 1 < 0 \/ entry.line[1] - 1 >= Len(lines)

\* ContentLines that always takes the line of the entry itself
ContentLinesOwnLine(lines, entry, all_entries, current_index) ==
    LET end_line == Min(FindEndLine(entry, all_entries, current_index + 1, Len(lines)),
                        Len(lines))
    IN  SubSeq(lines, entry.line[1],
               IF end_line < entry.line[1] THEN entry.line[1] ELSE end_line)

\* lines[start_line:end_line]
ContentLines(lines, entry, all_entries, current_index) ==
    SubSeq(lines, entry.line[1],
           Min(FindEndLine(entry, all_entries, current_index + 1, Len(lines)),
               Len(lines)))

\* the target of the \input directive of a line, with '.tex' appended
InputFile(line) ==
    IF EndsWithTex(line[InputMatch(line)].p)
    THEN line[InputMatch(line)].p
    ELSE AddTex(line[InputMatch(line)].p)

\* ExpandContent with no end to the recursion: a directive that the guard or
\* the depth cap leaves alone, though its file can be read, is entered again
\* and again until the interpreter gives up (RecursionError)
ExpandContentUnbounded(files, order, content_lines, file_path) ==
    LET out == ExpandLines(files, order, content_lines, file_path, 0, {}).lines
        LeftAlone(l) ==
            /\ InputMatch(l) # 0
            /\ FindFilePath(files, order, InputFile(l), None) # None
            /\ Readable(files, FindFilePath(files, order, InputFile(l), None)[1])
    IN  [raised |-> \E n \in 1..Len(out) : LeftAlone(out[n]),
         text |-> JoinLines(out)]

\* "for line in content_lines: result_lines.extend(expand_inputs(line,
\* current_file=file_path))" and the join of the result: never raises
ExpandContent(files, order, content_lines, file_path) ==
    [raised |-> FALSE,
     text |-> JoinLines(ExpandLines(files, order, content_lines, file_path,
                                    0, {}).lines)]

ExtractSectionContent(files, order, entry, all_entries, current_index) ==
    IF entry.file = NoFile \/ entry.line = None
    THEN [raised |-> FALSE,
          text |-> <<HeaderLine(entry),
                     CommentLine("% No source file information available", <<>>, <<>>)>>]
    ELSE
      LET file_path == EntryFilePath(files, order, entry) IN
      IF file_path = None
      THEN [raised |-> FALSE,
            text |-> <<HeaderLine(entry),
                       CommentLine("% Source file not found: ", <<>>, entry.file)>>]
      ELSE IF ~Readable(files, file_path[1])
      THEN [raised |-> FALSE,
            text |-> <<HeaderLine(entry),
                       CommentLine("% Error reading file: ", <<>>, file_path[1])>>]
      ELSE
        LET lines == ReadLines(files, file_path[1]) IN
        IF InvalidLineNumber(entry, lines)
        THEN [raised |-> FALSE,
              text |-> <<HeaderLine(entry),
                         CommentLine("% Invalid line number: ",
                                     Decimal(entry.line[1]), <<>>)>>]
        ELSE ExpandContent(files, order,
                           ContentLines(lines, entry, all_entries, current_index),
                           file_path[1])

(***************************************************************************)
(* _validate_structure(data): the list of issues, in the order appended.   *)
(***************************************************************************)
Issue(recs, i, k, kind) ==
    [entry |-> recs[i], index |-> i, level |-> recs[i].level,
     title |-> recs[i].title, issue |-> kind, severity |-> "warning",
     affected_file |-> recs[k].file, affected_line |-> recs[k].line,
     source_file |-> recs[i].file, source_line |-> recs[i].line]

\* NextSameLevelIndex that passes over a record of the same rank
RECURSIVE NextHigherLevelIndex(_, _, _)
NextHigherLevelIndex(recs, i, j) ==
    IF j > Len(recs) THEN 0
    ELSE IF LevelRank(recs[j].level) < LevelRank(recs[i].level) THEN j
    ELSE NextHigherLevelIndex(recs, i, j + 1)

\* for j in range(i + 1, len(recs)): ... break; 0 stands for None
RECURSIVE NextSameLevelIndex(_, _, _)
NextSameLevelIndex(recs, i, j) ==
    IF j > Len(recs) THEN 0
    ELSE IF LevelRank(recs[j].level) <= LevelRank(recs[i].level) THEN j
    ELSE NextSameLevelIndex(recs, i, j + 1)

\* IsHazard without the test that the nested record has a file
IsHazardAnyFile(recs, i, k) ==
    /\ LevelRank(recs[k].level) > LevelRank(recs[i].level)
    /\ recs[k].file # recs[i].file

IsHazard(recs, i, k) ==
    /\ LevelRank(recs[k].level) > LevelRank(recs[i].level)
    /\ recs[k].file # NoFile
    /\ recs[k].file # recs[i].file

\* for k in range(i + 1, next_same_level_index): ...
RECURSIVE NestedIssues(_, _, _, _)
NestedIssues(recs, i, k, stop) ==
    IF k >= stop THEN <<>>
    ELSE (IF IsHazard(recs, i, k)
          THEN <<Issue(recs, i, k, "has nested content in different file")>>
          ELSE <<>>)
         \o NestedIssues(recs, i, k + 1, stop)

\* for k in range(i + 1, len(recs)): ... elif level <= current_level: break
RECURSIVE TrailingIssues(_, _, _)
TrailingIssues(recs, i, k) ==
    IF k > Len(recs) THEN <<>>
    ELSE IF IsHazard(recs, i, k)
         THEN <<Issue(recs, i, k, "may have content in different file")>>
                  \o TrailingIssues(recs, i, k + 1)
    ELSE IF LevelRank(recs[k].level) <= LevelRank(recs[i].level) THEN <<>>
    ELSE TrailingIssues(recs, i, k + 1)

EntryIssues(recs, i) ==
    IF recs[i].file = NoFile THEN <<>>
    ELSE IF NextSameLevelIndex(recs, i, i + 1) # 0
         THEN NestedIssues(recs, i, i + 1, NextSameLevelIndex(recs, i, i + 1))
         ELSE TrailingIssues(recs, i, i + 1)

RECURSIVE ValidateFrom(_, _)
ValidateFrom(recs, i) ==
    IF i > Len(recs) THEN <<>>
    ELSE EntryIssues(recs, i) \o ValidateFrom(recs, i + 1)

ValidateStructure(recs) == ValidateFrom(recs, 1)

(***************************************************************************)
(* The filter of split() and validate_structure()                          *)
(***************************************************************************)
NotSubsection(e) == e.level # "subsection"

\* FilterData dropping every level of rank 3 or more
FilterDataByRank(d, incl) ==
    LET Shallow(e) == LevelRank(e.level) < 3
    IN  IF ~incl THEN SelectSeq(d, Shallow) ELSE d

FilterData(d, incl) == IF ~incl THEN SelectSeq(d, NotSubsection) ELSE d

(***************************************************************************)
(* split(): filename allocation                                            *)
(***************************************************************************)
\* filename = _sanitize_filename(title) or f"{level}_{number}"
BaseFilename(entry) ==
    IF SanitizeFilename(entry.title) = <<>>
    THEN LevelChars(entry.level) \o <<"_">> \o entry.number
    ELSE SanitizeFilename(entry.title)

\* UniqueFilename that tries one suffix only
UniqueFilenameOnce(filename, base_filename, counter, counts) ==
    IF filename \in counts
    THEN base_filename \o <<"_">> \o Decimal(counter)
    ELSE filename

\* UniqueFilename with the suffix one ahead of the counter
RECURSIVE UniqueFilenameAhead(_, _, _, _)
UniqueFilenameAhead(filename, base_filename, counter, counts) ==
    IF filename \in counts
    THEN UniqueFilenameAhead(base_filename \o <<"_">> \o Decimal(counter + 1),
                             base_filename, counter + 1, counts)
    ELSE filename

\* while filename in filename_counts: filename = f"{base}_{counter}"; counter += 1
RECURSIVE UniqueFilename(_, _, _, _)
UniqueFilename(filename, base_filename, counter, counts) ==
    IF filename \in counts
    THEN UniqueFilename(base_filename \o <<"_">> \o Decimal(counter),
                        base_filename, counter + 1, counts)
    ELSE filename

AllocateFilename(entry, counts) ==
    UniqueFilename(BaseFilename(entry), BaseFilename(entry), 1, counts)

(***************************************************************************)
(* Dictionaries keep insertion order: a list of [key, value].              *)
(***************************************************************************)
DictKeys(d) == {d[p].key : p \in 1..Len(d)}

DictGet(d, key) == d[CHOOSE p \in 1..Len(d) : d[p].key = key].value

\* d.setdefault(key, value) in place of d[key] = value
DictSetDefault(d, key, value) ==
    IF key \in DictKeys(d) THEN d
    ELSE Append(d, [key |-> key, value |-> value])

\* d[key] = value
DictSet(d, key, value) ==
    IF key \in DictKeys(d)
    THEN [p \in 1..Len(d) |->
             IF d[p].key = key THEN [key |-> key, value |-> value] ELSE d[p]]
    ELSE Append(d, [key |-> key, value |-> value])

(***************************************************************************)
(* The file system under split(): mkdir and write_text                     *)
(***************************************************************************)
\* output_path.mkdir(parents=True, exist_ok=True) raises when the path or
\* one of its ancestors is a file
MkdirRaises(files, dir) ==
    \E n \in 1..Len(PurePath(dir)) : IsFile(files, SubSeq(PurePath(dir), 1, n))

\* write_text raises when the target is a directory or its directory is missing
WriteRaises(files, dir, path) ==
    \/ (IsDir(files, path) /\ ~IsFile(files, path))
    \/ (FileKey(Parent(path)) # FileKey(dir) /\ ~IsDir(files, Parent(path)))
    \/ IsFile(files, Parent(path))

WriteText(files, path, content) ==
    [p \in DOMAIN files \cup {FileKey(path)} |->
        IF p = FileKey(path) THEN [readable |-> TRUE, lines |-> content]
        ELSE files[p]]

(***************************************************************************)
(* The project on disk when the splitter is constructed.                   *)
(***************************************************************************)
A_tex == << <<"a">> \o Tex >>
B_tex == << <<"b">> \o Tex >>
C_tex == << <<"c">> \o Tex >>
U_tex == << <<"u">> \o Tex >>
Sub_B_tex == << <<"s", "u", "b">> >> \o B_tex
Missing_tex == << <<"m">> \o Tex >>
OutsideDir == <<DotDot, <<"o", "u", "t">> >>

SourceTree ==
    (A_tex :> [readable |-> TRUE,
               lines |-> <<Txt("a1"), Input(<< <<"c">> >>), Txt("a3")>>])
    @@ (Sub_B_tex :> [readable |-> TRUE, lines |-> <<Txt("b1")>>])
    @@ (C_tex :> [readable |-> TRUE, lines |-> <<Txt("c1")>>])
    @@ (U_tex :> [readable |-> FALSE, lines |-> <<>>])

SourceOrder == <<A_tex, Sub_B_tex, C_tex, U_tex>>

\* the splitter constructed on a project: no call made yet
InitWith(tree, order) ==
    /\ fs = tree
    /\ scan_order = order
    /\ data = <<>>
    /\ output_dir = <<>>
    /\ include_subsections = FALSE
    /\ validate = FALSE
    /\ pc = "idle"
    /\ filtered_data = <<>>
    /\ issues = <<>>
    /\ idx = 0
    /\ filename_counts = {}
    /\ output_files = <<>>
    /\ writes = <<>>
    /\ before = None
    /\ dependencies = <<>>
    /\ processed_files = {}
    /\ calls = <<>>
    /\ parsed = <<>>
    /\ cpc = "idle"
    /\ brace_text = <<>>
    /\ start = 0
    /\ brace_end = None

Init == InitWith(SourceTree, SourceOrder)

(***************************************************************************)
(* split(): what is done with the issues found.  warnings.warn under the   *)
(* default filter and print both return; the issues go nowhere else.       *)
(***************************************************************************)
\* WarnRaises with warnings turned into errors
WarnRaisesOnIssue(found) == found # <<>>

\* "if issues: for issue in issues: warnings.warn(...)" and the summary
WarnRaises(found) == FALSE

(***************************************************************************)
(* split(data, output_dir, include_subsections, validate): the call up to  *)
(* the creation of the output directory                                    *)
(***************************************************************************)
Split(d, dir, incl, val) ==
    /\ pc \in {"idle", "done"}
    /\ before' = IF pc = "done"
                 THEN Some([fs |-> fs, output_files |-> output_files,
                            writes |-> writes])
                 ELSE None
    /\ data' = d
    /\ output_dir' = dir
    /\ include_subsections' = incl
    /\ validate' = val
    /\ filtered_data' = FilterData(d, incl)
    /\ issues' = IF val THEN ValidateStructure(FilterData(d, incl)) ELSE <<>>
    /\ pc' = IF \/ (val /\ WarnRaises(ValidateStructure(FilterData(d, incl))))
                \/ MkdirRaises(fs, dir)
             THEN "raised" ELSE "loop"
    /\ idx' = 1
    /\ filename_counts' = {}
    /\ output_files' = <<>>
    /\ writes' = <<>>
    /\ UNCHANGED <<fs, scan_order, collector_vars, parser_vars>>

\* where the operating system lists a file created under base_path
NewOrders(order, key) ==
    IF (\E p \in 1..Len(order) : order[p] = key) \/ ~UnderBase(key)
    THEN {order}
    ELSE {SubSeq(order, 1, p) \o <<key>> \o SubSeq(order, p + 1, Len(order)) :
             p \in 0..Len(order)}

\* one iteration of "for i, entry in enumerate(filtered_data)"
SplitStep ==
    /\ pc = "loop"
    /\ idx <= Len(filtered_data)
    /\ LET entry == filtered_data[idx]
           filename == AllocateFilename(entry, filename_counts)
           content == ExtractSectionContent(fs, scan_order, entry, filtered_data, idx)
           output_file == PurePath(output_dir \o Components(filename \o Tex))
       IN  /\ filename_counts' = filename_counts \cup {filename}
           /\ IF content.raised \/ WriteRaises(fs, output_dir, output_file)
              THEN /\ pc' = "raised"
                   /\ UNCHANGED <<fs, scan_order, writes, output_files, idx>>
              ELSE /\ fs' = WriteText(fs, output_file, content.text)
                   /\ scan_order' \in NewOrders(scan_order, FileKey(output_file))
                   /\ writes' = Append(writes, [path |-> output_file,
                                                content |-> content.text])
                   /\ output_files' = DictSet(output_files, entry.title, output_file)
                   /\ idx' = idx + 1
                   /\ pc' = "loop"
    /\ UNCHANGED <<data, output_dir, include_subsections, validate,
                   filtered_data, issues, before, collector_vars, parser_vars>>

\* return output_files
SplitReturn ==
    /\ pc = "loop"
    /\ idx > Len(filtered_data)
    /\ pc' = "done"
    /\ UNCHANGED <<fs, scan_order, data, output_dir, include_subsections, validate,
                   filtered_data, issues, idx, filename_counts, output_files, writes,
                   before, collector_vars, parser_vars>>

(***************************************************************************)
(* validate_structure(data, include_subsections), the public method        *)
(***************************************************************************)
ValidateStructureCall(d, incl) ==
    /\ pc = "idle"
    /\ data' = d
    /\ include_subsections' = incl
    /\ filtered_data' = FilterData(d, incl)
    /\ issues' = ValidateStructure(FilterData(d, incl))
    /\ pc' = "validated"
    /\ UNCHANGED <<fs, scan_order, output_dir, validate, idx, filename_counts,
                   output_files, writes, before, collector_vars, parser_vars>>

(***************************************************************************)
(* LatexDependencyCollector (dependency_collector.py).  A path text is,    *)
(* as above, the sequence of its components; the collector's patterns see  *)
(* the \input, \include and \usepackage tokens of a line.                  *)
(***************************************************************************)
Include(path) == <<[k |-> "inc", v |-> <<>>, p |-> path]>>
UsePackage(path) == <<[k |-> "pkg", v |-> <<>>, p |-> path]>>

\* pattern.findall(line) for one pattern: the arguments, left to right
RECURSIVE FindAll(_, _)
FindAll(line, kinds) ==
    IF line = <<>> THEN <<>>
    ELSE (IF line[1].k \in kinds /\ line[1].p # <<>> THEN <<line[1].p>> ELSE <<>>)
         \o FindAll(Tail(line), kinds)

\* the matches of one line, pattern after pattern (INPUT_RE, INCLUDE_RE,
\* USEPACKAGE_RE; the model's lines hold no \documentclass or \bibliography)
LineDependencies(line, line_num) ==
    LET Tagged(include_type, kinds) ==
            [n \in 1..Len(FindAll(line, kinds)) |->
                [include_type |-> include_type,
                 dep_file |-> FindAll(line, kinds)[n],
                 line_number |-> line_num]]
    IN  Tagged("input", {"inp", "marker"}) \o Tagged("include", {"inc"})
            \o Tagged("usepackage", {"pkg"})

RECURSIVE FileDependencies(_, _)
FileDependencies(lines, line_num) ==
    IF line_num > Len(lines) THEN <<>>
    ELSE LineDependencies(lines[line_num], line_num)
             \o FileDependencies(lines, line_num + 1)

\* _parse_file_dependencies(file_path): nothing for a file that does not
\* exist, and nothing for one that cannot be opened (except: pass)
ParseFileDependencies(files, file_path) ==
    IF ~Exists(files, file_path) THEN <<>>
    ELSE IF ~Readable(files, file_path) THEN <<>>
    ELSE FileDependencies(ReadLines(files, file_path), 1)

\* Path(file_path).suffix is not empty: the last component holds a dot that
\* is neither its first nor its last character
HasSuffix(p) ==
    /\ p # <<>>
    /\ \E n \in 2..(Len(p[Len(p)]) - 1) : p[Len(p)][n] = "."

\* _normalize_file_path(file_path, from_file) for a relative path: '.tex' is
\* appended to a path without suffix, and str(Path(...)) drops "." and empty
\* components and keeps ".."
NormalizeFilePath(file_path, from_file) ==
    PurePath(IF HasSuffix(file_path) THEN file_path ELSE AddTex(file_path))

MaxCollectDepth == 50

\* AlreadyProcessed that never finds the file
AlreadyProcessedNever(file_path, processed) == FALSE

\* "file_path in self.processed_files"
AlreadyProcessed(file_path, processed) == file_path \in processed

DependencyEntry(dep, file_path) ==
    [file_path |-> NormalizeFilePath(dep.dep_file, file_path),
     include_type |-> dep.include_type,
     included_from |-> file_path,
     line_number |-> dep.line_number,
     exists |-> Exists(fs, NormalizeFilePath(dep.dep_file, file_path)),
     is_tex_file |-> EndsWithTex(NormalizeFilePath(dep.dep_file, file_path))]

\* a call of _collect_dependencies_recursive that has not begun
Call(file_path, depth) ==
    [file_path |-> file_path, depth |-> depth, entered |-> FALSE, deps |-> <<>>]

\* collect_dependencies(root_file), up to the first recursive call
CollectDependencies(root_file) ==
    /\ cpc \in {"idle", "returned"}
    /\ dependencies' = <<>>
    /\ processed_files' = {}
    /\ parsed' = <<>>
    /\ calls' = <<Call(root_file, 0)>>
    /\ cpc' = "running"
    /\ UNCHANGED <<fs, scan_order, splitter_vars, parser_vars>>

\* _collect_dependencies_recursive from its first line to the head of the
\* loop: the early return, or the file marked and parsed
CollectEnter ==
    /\ cpc = "running"
    /\ calls # <<>>
    /\ ~calls[Len(calls)].entered
    /\ LET top == calls[Len(calls)] IN
       IF top.depth > MaxCollectDepth \/ AlreadyProcessed(top.file_path, processed_files)
       THEN /\ calls' = SubSeq(calls, 1, Len(calls) - 1)
            /\ UNCHANGED <<processed_files, parsed>>
       ELSE /\ processed_files' = processed_files \cup {top.file_path}
            /\ parsed' = Append(parsed, top.file_path)
            /\ calls' = [calls EXCEPT ![Len(calls)] =
                             [top EXCEPT !.entered = TRUE,
                                         !.deps = ParseFileDependencies(fs, top.file_path)]]
    /\ UNCHANGED <<fs, scan_order, splitter_vars, parser_vars, dependencies, cpc>>

\* one iteration of "for include_type, raw_dep_path, line_num in deps", up
\* to the recursive call, or the return at the end of the loop
CollectLoop ==
    /\ cpc = "running"
    /\ calls # <<>>
    /\ calls[Len(calls)].entered
    /\ LET top == calls[Len(calls)] IN
       IF top.deps = <<>>
       THEN /\ calls' = SubSeq(calls, 1, Len(calls) - 1)
            /\ UNCHANGED dependencies
       ELSE LET entry == DependencyEntry(top.deps[1], top.file_path)
                rest == [calls EXCEPT ![Len(calls)] =
                             [top EXCEPT !.deps = Tail(top.deps)]]
            IN  /\ dependencies' = Append(dependencies, entry)
                /\ calls' = IF /\ entry.exists
                               /\ entry.is_tex_file
                               /\ entry.include_type \in {"input", "include"}
                            THEN Append(rest, Call(entry.file_path, top.depth + 1))
                            ELSE rest
    /\ UNCHANGED <<fs, scan_order, splitter_vars, parser_vars, processed_files, parsed, cpc>>

\* return self.dependencies
CollectReturn ==
    /\ cpc = "running"
    /\ calls = <<>>
    /\ cpc' = "returned"
    /\ UNCHANGED <<fs, scan_order, splitter_vars, parser_vars, dependencies, processed_files,
                   calls, parsed>>

(***************************************************************************)
(* LatexTocProcessor._find_brace_end(text, start) (process.py).  Positions *)
(* are 0-based as in the code: text[i] is the element i + 1 of the         *)
(* sequence.                                                               *)
(***************************************************************************)
\* FindBraceEnd that stops at the first closing brace
RECURSIVE FirstClosingBrace(_, _)
FirstClosingBrace(t, i) ==
    IF i >= Len(t) THEN -1
    ELSE IF t[i + 1] = "}" THEN i
    ELSE FirstClosingBrace(t, i + 1)

\* "while i < len(text) and depth > 0: ...; i += 1" and the return
RECURSIVE BraceLoop(_, _, _)
BraceLoop(t, i, depth) ==
    IF i < Len(t) /\ depth > 0
    THEN BraceLoop(t, i + 1,
                   IF t[i + 1] = "{" THEN depth + 1
                   ELSE IF t[i + 1] = "}" THEN depth - 1
                   ELSE depth)
    ELSE IF depth = 0 THEN i - 1 ELSE -1

FindBraceEnd(t, i) == BraceLoop(t, i, 1)

FindBraceEndCall(t, i) ==
    /\ brace_text' = t
    /\ start' = i
    /\ brace_end' = Some(FindBraceEnd(t, i))
    /\ UNCHANGED <<fs, scan_order, splitter_vars, collector_vars>>

(***************************************************************************)
(* Inputs.  Lists of at most n records drawn from a set.                   *)
(***************************************************************************)
LongestFile ==
    CHOOSE n \in 0..8 : /\ \E f \in DOMAIN SourceTree : Len(SourceTree[f].lines) = n
                        /\ \A f \in DOMAIN SourceTree : Len(SourceTree[f].lines) <= n

\* LatexTocProcessor attaches file and line together (process.py,
\* _attach_positions): a record has neither, or a file and a line number,
\* which parse_sectpos reads with \d+ (so it can be 0)
Positions(files, lines) ==
    {[file |-> NoFile, line |-> None]}
        \cup {[file |-> f, line |-> Some(n)] : f \in files, n \in lines}

Records(levels, titles, positions) ==
    {[level |-> l, number |-> <<"1">>, title |-> t, file |-> q.file, line |-> q.line] :
        l \in levels, t \in titles, q \in positions}

\* records that differ in level and position: the spans of the extractor.
\* A record of a.tex has any of three ranks; a record without a position or
\* of b.tex (found by the recursive search, as sub/b.tex) is a section, so
\* it is above, beside or below the record of a.tex it follows.
SpanRecords ==
    Records({"chapter", "section", "paragraph"}, {<<"T">>},
            {q \in Positions({A_tex}, 0..(LongestFile - 1)) : q.file # NoFile})
        \cup Records({"section"}, {<<"T">>}, Positions({B_tex}, {1}))

SplitSpan ==
    /\ pc = "idle"
    /\ \E m \in 0..MaxRecs : \E d \in [1..m -> SpanRecords] :
           Split(d, OutsideDir, FALSE, TRUE)

NextSpan == SplitSpan \/ SplitStep \/ SplitReturn

SpecSpan == Init /\ [][NextSpan]_vars

\* records that differ in title and level: filtering and file names
NameTitles == {<<"A">>, <<"A", " ", "1">>, <<"A", "_", "1">>, <<"?">>}

NameRecords ==
    Records({"chapter"}, NameTitles, {[file |-> A_tex, line |-> Some(1)]})
        \cup Records({"subsection"}, {<<"A">>, <<"?">>},
                     {[file |-> A_tex, line |-> Some(1)]})
        \cup Records({"paragraph"}, {<<"A">>}, {[file |-> A_tex, line |-> Some(1)]})

SplitNames ==
    /\ pc = "idle"
    /\ \E m \in 0..MaxRecs : \E d \in [1..m -> NameRecords], incl \in BOOLEAN :
           Split(d, OutsideDir, incl, TRUE)

NextNames == SplitNames \/ SplitStep \/ SplitReturn

SpecNames == Init /\ [][NextNames]_vars

\* records whose source cannot be extracted: no position, a file that does
\* not exist, a file or a directory that cannot be read, a line outside the file
FaultRecords ==
    Records({"chapter"}, {<<"T">>},
            Positions({A_tex, U_tex, Missing_tex, << <<"s", "u", "b">> >>},
                      {0, 1, LongestFile + 1}))

SplitFaults ==
    /\ pc = "idle"
    /\ \E m \in 0..MaxRecs : \E d \in [1..m -> FaultRecords], dir \in {OutsideDir, A_tex} :
           Split(d, dir, FALSE, TRUE)

NextFaults == SplitFaults \/ SplitStep \/ SplitReturn

SpecFaults == Init /\ [][NextFaults]_vars

\* record layouts for the validator: level and file vary, the line of a
\* record is its place in the list
LayoutChoices ==
    [level : {"chapter", "section", "subsection"}, file : {A_tex, B_tex}]
        \cup {[level |-> "section", file |-> NoFile],
              [level |-> "paragraph", file |-> A_tex]}

LayoutList(c) ==
    [k \in 1..Len(c) |->
        [level |-> c[k].level, number |-> <<"1">>, title |-> <<"T">>,
         file |-> c[k].file,
         line |-> IF c[k].file = NoFile THEN None ELSE Some(k)]]

ValidateLayout ==
    /\ pc = "idle"
    /\ \E m \in 0..MaxLayout : \E c \in [1..m -> LayoutChoices], incl \in BOOLEAN :
           ValidateStructureCall(LayoutList(c), incl)

NextLayout == ValidateLayout

SpecLayout == Init /\ [][NextLayout]_vars

\* two calls in a row with the same arguments, the output directory outside
\* the project, the project root itself, or a directory of the project
ProjectRoot == <<>>
SubDir == << <<"s", "u", "b">> >>

\* (a record titled c gives the output file c.tex, the name of a source
\* file; a record of the missing file m.tex titled m gives m.tex)
AgainRecords ==
    Records({"chapter"}, {<<"c">>}, Positions({A_tex}, {1}))
        \cup Records({"chapter"}, {<<"m">>},
                     {q \in Positions({Missing_tex}, {2}) : q.file # NoFile})

SplitFirst ==
    /\ pc = "idle"
    /\ \E m \in 0..MaxRecs : \E d \in [1..m -> AgainRecords] :
           \E dir \in {OutsideDir, ProjectRoot, SubDir} :
               Split(d, dir, FALSE, FALSE)

SplitAgain ==
    /\ pc = "done"
    /\ before = None
    /\ Split(data, output_dir, include_subsections, validate)

NextAgain == SplitFirst \/ SplitAgain \/ SplitStep \/ SplitReturn

SpecAgain == Init /\ [][NextAgain]_vars

(***************************************************************************)
(* A project whose files \input themselves, each other, an unreadable and  *)
(* a missing file, and files that exist at the root and in a directory.    *)
(***************************************************************************)
S_tex == << <<"s">> \o Tex >>
P_tex == << <<"p">> \o Tex >>
Q_tex == << <<"q">> \o Tex >>
R_tex == << <<"r">> \o Tex >>
W_tex == << <<"w">> \o Tex >>
X_tex == << <<"x">> \o Tex >>
Sub_X_tex == SubDir \o X_tex
Sub_Y_tex == SubDir \o << <<"y">> \o Tex >>
Sub_Z_tex == SubDir \o << <<"z">> \o Tex >>

IncludeTree ==
    (S_tex :> [readable |-> TRUE, lines |-> <<Txt("s1"), Input(<< <<"s">> >>)>>])
    @@ (P_tex :> [readable |-> TRUE, lines |-> <<Txt("p1"), Input(<< <<"q">> >>)>>])
    @@ (Q_tex :> [readable |-> TRUE,
                  lines |-> <<Input(<< <<"p">> >>), Input(<< <<"r">> >>)>>])
    @@ (R_tex :> [readable |-> TRUE,
                  lines |-> <<Txt("r1"), Input(<< <<".">>, <<"r">> >>)>>])
    @@ (W_tex :> [readable |-> TRUE,
                  lines |-> <<Input(<< <<"c">> >>), Input(<< <<"u">> >>),
                              Input(<< <<"c">> >>), Input(<< <<"m">> >>)>>])
    @@ (C_tex :> [readable |-> TRUE, lines |-> <<Txt("c1")>>])
    @@ (U_tex :> [readable |-> FALSE, lines |-> <<>>])
    @@ (X_tex :> [readable |-> TRUE, lines |-> <<Txt("x0")>>])
    @@ (Sub_X_tex :> [readable |-> TRUE, lines |-> <<Txt("x1")>>])
    @@ (Sub_Y_tex :> [readable |-> TRUE,
                      lines |-> <<Input(<< <<"x">> >>), Input(<< <<"z">> >>)>>])
    @@ (Sub_Z_tex :> [readable |-> TRUE, lines |-> <<Txt("z1")>>])

IncludeOrder ==
    <<S_tex, P_tex, Q_tex, R_tex, W_tex, C_tex, U_tex, Sub_X_tex, X_tex,
      Sub_Y_tex, Sub_Z_tex>>

InitInclude == InitWith(IncludeTree, IncludeOrder)

\* chapters that start at the first line of a file
IncludeRecords ==
    {e \in Records({"chapter"}, {<<"T">>},
                   Positions({S_tex, P_tex, Q_tex, R_tex, W_tex, Sub_Y_tex}, {1})) :
        e.file # NoFile}

SplitInclude ==
    /\ pc = "idle"
    /\ \E m \in 0..MaxRecs : \E d \in [1..m -> IncludeRecords] :
           Split(d, OutsideDir, FALSE, FALSE)

NextInclude == SplitInclude \/ SplitStep \/ SplitReturn

SpecInclude == InitInclude /\ [][NextInclude]_vars

\* an iteration of the loop that ends without raising: what SplitStep does
\* to the loop position.  SplitStep has a step whenever pc = "loop" and
\* idx <= Len(filtered_data), and that step advances idx or raises.
LoopAdvance ==
    /\ pc = "loop"
    /\ idx <= Len(filtered_data)
    /\ idx' = idx + 1

\* the loop of split is sequential code: each iteration and the return
\* are taken once the one before has ended
SpecIncludeFair ==
    SpecInclude /\ WF_idx(LoopAdvance) /\ WF_vars(SplitReturn)

(***************************************************************************)
(* A project that is one chain of files: n0.tex holds \input{n1}, n1.tex   *)
(* holds \input{n2}, and so on; the last file holds a line of text.        *)
(***************************************************************************)
ChainName(k) == <<"n">> \o Decimal(k)

ChainFile(k) == << ChainName(k) \o Tex >>

ChainIndex(f) == CHOOSE k \in 0..MaxChain : ChainFile(k) = f

ChainTree ==
    [f \in {ChainFile(k) : k \in 0..MaxChain} |->
        [readable |-> TRUE,
         lines |-> IF f = ChainFile(MaxChain)
                   THEN <<Txt("end")>>
                   ELSE <<Input(<<ChainName(ChainIndex(f) + 1)>>)>>]]

ChainOrder == [k \in 1..(MaxChain + 1) |-> ChainFile(k - 1)]

InitChain == InitWith(ChainTree, ChainOrder)

\* chapters that start at the first line of one of the first files
ChainRecords ==
    {e \in Records({"chapter"}, {<<"T">>},
                   Positions({ChainFile(k) : k \in 0..3}, {1})) :
        e.file # NoFile}

SplitChain ==
    /\ pc = "idle"
    /\ \E m \in 0..MaxRecs : \E d \in [1..m -> ChainRecords] :
           Split(d, OutsideDir, FALSE, FALSE)

NextChain == SplitChain \/ SplitStep \/ SplitReturn

SpecChain == InitChain /\ [][NextChain]_vars

\* the same call made with validate on and with validate off: records
\* whose deeper records lie in another file, so that validation finds issues
AdvisoryChoices ==
    {[level |-> "chapter", file |-> A_tex], [level |-> "section", file |-> A_tex],
     [level |-> "section", file |-> B_tex], [level |-> "subsection", file |-> B_tex],
     [level |-> "paragraph", file |-> B_tex]}

SplitValidate ==
    /\ pc = "idle"
    /\ \E m \in 0..MaxRecs : \E c \in [1..m -> AdvisoryChoices] :
           \E incl \in BOOLEAN, val \in BOOLEAN :
               Split(LayoutList(c), OutsideDir, incl, val)

SplitOtherwise ==
    /\ pc = "done"
    /\ before = None
    /\ Split(data, output_dir, include_subsections, ~validate)

NextAdvisory == SplitValidate \/ SplitOtherwise \/ SplitStep \/ SplitReturn

SpecAdvisory == Init /\ [][NextAdvisory]_vars

\* records whose deeper records lie in another file: one that a.tex pulls
\* in with \input (c.tex), one that it does not (b.tex, found as sub/b.tex),
\* and the latter under its two path texts
HazardRecords ==
    Records({"chapter"}, {<<"T">>},
            {[file |-> A_tex, line |-> Some(1)], [file |-> Sub_B_tex, line |-> Some(1)]})
        \cup Records({"section"}, {<<"T">>},
                     {[file |-> C_tex, line |-> Some(1)], [file |-> B_tex, line |-> Some(1)],
                      [file |-> A_tex, line |-> Some(3)]})

SplitHazard ==
    /\ pc = "idle"
    /\ \E m \in 0..MaxRecs : \E d \in [1..m -> HazardRecords] :
           Split(d, OutsideDir, FALSE, TRUE)

NextHazard == SplitHazard \/ SplitStep \/ SplitReturn

SpecHazard == Init /\ [][NextHazard]_vars

\* records as LatexTocProcessor.process gives them for numbered and for
\* unnumbered sections ('number': e.number if e.number else '*'), with
\* titles that sanitize to a name and titles that sanitize to nothing
Unnumbered(e) == [e EXCEPT !.number = <<"*">>]

NumberRecords ==
    LET numbered == Records({"chapter", "section"}, {<<"?">>, <<"A", " ", "B">>},
                            {[file |-> A_tex, line |-> Some(1)]})
    IN  numbered \cup {Unnumbered(e) : e \in numbered}

SplitNumbers ==
    /\ pc = "idle"
    /\ \E m \in 0..MaxRecs : \E d \in [1..m -> NumberRecords] :
           Split(d, OutsideDir, FALSE, FALSE)

NextNumbers == SplitNumbers \/ SplitStep \/ SplitReturn

SpecNumbers == Init /\ [][NextNumbers]_vars

\* the same call made with and without the subsections: records of every
\* rank at the lines of a.tex
LevelRecords ==
    {e \in Records({"chapter", "paragraph"}, {<<"T">>}, Positions({A_tex}, {1}))
            \cup Records({"section", "paragraph"}, {<<"T">>}, Positions({A_tex}, {2}))
            \cup Records({"subsection"}, {<<"T">>}, Positions({A_tex}, {2, 3})) :
        e.file # NoFile}

SplitLevels ==
    /\ pc = "idle"
    /\ \E m \in 0..MaxRecs : \E d \in [1..m -> LevelRecords], incl \in BOOLEAN :
           Split(d, OutsideDir, incl, FALSE)

SplitFlipped ==
    /\ pc = "done"
    /\ before = None
    /\ Split(data, output_dir, ~include_subsections, validate)

NextLevels == SplitLevels \/ SplitFlipped \/ SplitStep \/ SplitReturn

SpecLevels == Init /\ [][NextLevels]_vars

(***************************************************************************)
(* A project whose lines hold an \input directive among other text: text   *)
(* before and after it, a second directive after it, a directive that      *)
(* does not resolve before one that does; and the same inside a file that  *)
(* is pulled in.                                                           *)
(***************************************************************************)
Mix_tex == << <<"m", "i", "x">> \o Tex >>

MixedTree ==
    (Mix_tex :> [readable |-> TRUE,
                 lines |-> <<Txt("pre") \o Input(<< <<"c">> >>) \o Txt("post"),
                             Input(<< <<"x">> >>) \o Input(<< <<"c">> >>),
                             Input(<< <<"m">> >>) \o Input(<< <<"x">> >>),
                             Txt("t4")>>])
    @@ (C_tex :> [readable |-> TRUE,
                  lines |-> <<Txt("c1"), Txt("in") \o Input(<< <<"x">> >>)>>])
    @@ (X_tex :> [readable |-> TRUE, lines |-> <<Txt("x0")>>])

MixedOrder == <<Mix_tex, C_tex, X_tex>>

InitMixed == InitWith(MixedTree, MixedOrder)

\* chapters and sections at the lines of mix.tex
MixedRecords ==
    {e \in Records({"chapter"}, {<<"T">>}, Positions({Mix_tex}, 1..4))
            \cup Records({"section"}, {<<"T">>}, Positions({Mix_tex}, {2, 3})) :
        e.file # NoFile}

SplitMixed ==
    /\ pc = "idle"
    /\ \E m \in 0..MaxRecs : \E d \in [1..m -> MixedRecords] :
           Split(d, OutsideDir, FALSE, FALSE)

NextMixed == SplitMixed \/ SplitStep \/ SplitReturn

SpecMixed == InitMixed /\ [][NextMixed]_vars

(***************************************************************************)
(* Projects for the collector: main.tex holds at most one line and a.tex   *)
(* up to MaxDirectives lines, a line being a directive that names one of   *)
(* the two files (one of them by way of a directory), so that the files    *)
(* include themselves and each other in every way.                         *)
(***************************************************************************)
Main_tex == << <<"m", "a", "i", "n">> \o Tex >>

Directives ==
    {Input(<< <<"a">> >>), Input(<< <<"m", "a", "i", "n">> >>),
     Include(<< <<"s", "u", "b">>, DotDot, <<"a">> >>),
     UsePackage(<< <<"m", "a", "i", "n", ".", "t", "e", "x">> >>)}

DependTree(main_lines, a_lines) ==
    (Main_tex :> [readable |-> TRUE, lines |-> main_lines])
    @@ (A_tex :> [readable |-> TRUE, lines |-> a_lines])
    @@ (Sub_B_tex :> [readable |-> TRUE, lines |-> <<Txt("b1")>>])

InitCollect ==
    \E m \in 0..1, n \in 0..MaxDirectives :
        \E main_lines \in [1..m -> Directives], a_lines \in [1..n -> Directives] :
            InitWith(DependTree(main_lines, a_lines), <<Main_tex, A_tex, Sub_B_tex>>)

Collect ==
    \E root_file \in {Main_tex, A_tex, Missing_tex} : CollectDependencies(root_file)

NextCollect == Collect \/ CollectEnter \/ CollectLoop \/ CollectReturn

SpecCollect == InitCollect /\ [][NextCollect]_vars

\* the recursion is sequential code: each of its steps is taken once the
\* one before has ended
SpecCollectFair ==
    SpecCollect /\ WF_vars(CollectEnter) /\ WF_vars(CollectLoop)
        /\ WF_vars(CollectReturn)

\* texts of braces and other characters, and every position in and just
\* after them
BraceTexts == UNION {[1..n -> {"{", "}", "x"}] : n \in 0..MaxText}

FindBrace ==
    /\ brace_end = None
    /\ \E t \in BraceTexts : \E i \in 0..(Len(t) + 1) : FindBraceEndCall(t, i)

NextBrace == FindBrace

SpecBrace == Init /\ [][NextBrace]_vars

Next ==
    \/ FindBrace
    \/ SplitNumbers
    \/ SplitLevels
    \/ SplitFlipped
    \/ SplitMixed
    \/ SplitHazard
    \/ Collect
    \/ CollectEnter
    \/ CollectLoop
    \/ CollectReturn
    \/ SplitValidate
    \/ SplitOtherwise
    \/ SplitInclude
    \/ SplitChain
    \/ SplitSpan
    \/ SplitNames
    \/ SplitFaults
    \/ ValidateLayout
    \/ SplitFirst
    \/ SplitAgain
    \/ SplitStep
    \/ SplitReturn

Spec == Init /\ [][Next]_vars

(***************************************************************************)
(* Properties.  What the statements below say about "the content of        *)
(* record n" is read off the history of writes: in a call that has not     *)
(* raised, writes[n] is the file written for filtered_data[n].             *)
(***************************************************************************)
\* the hierarchy rank as the specification gives it
SpecRank(level) ==
    CASE level = "chapter" -> 1
      [] level = "section" -> 2
      [] level = "subsection" -> 3
      [] OTHER -> 99

Least(S) == CHOOSE x \in S : \A y \in S : x <= y

\* the first record after i of the same or a higher rank; 0 when there is none
Boundary(F, i) ==
    LET S == {j \in (i + 1)..Len(F) : SpecRank(F[j].level) <= SpecRank(F[i].level)}
    IN  IF S = {} THEN 0 ELSE Least(S)

\* the first record after i of the same or a higher rank in i's own file
SameFileBoundary(F, i) ==
    LET S == {j \in (i + 1)..Len(F) :
                 /\ SpecRank(F[j].level) <= SpecRank(F[i].level)
                 /\ F[j].file = F[i].file}
    IN  IF S = {} THEN 0 ELSE Least(S)

\* the file of the record, as the project holds it
SourceOf(e) == EntryFilePath(SourceTree, SourceOrder, e)

\* the record's file resolves, can be read, and holds the record's line
InFile(e) ==
    /\ e.file # NoFile
    /\ SourceOf(e) # None
    /\ Readable(SourceTree, SourceOf(e)[1])
    /\ e.line[1] \in 1..Len(ReadLines(SourceTree, SourceOf(e)[1]))

LinesOf(e) == ReadLines(SourceTree, SourceOf(e)[1])

\* a line number the code takes as one: present and not 0 (lines are 1-based)
HasLine(e) == e.line # None /\ e.line[1] # 0

\* the text of source lines first..last of the record's file, \input expanded
SpanText(e, first, last) ==
    JoinLines(ExpandLines(SourceTree, SourceOrder,
                          SubSeq(LinesOf(e), first, Min(last, Len(LinesOf(e)))),
                          SourceOf(e)[1], 0, {}).lines)

C2_SameFileBoundary ==
    \A n \in 1..Len(writes) :
        LET e == filtered_data[n]
            b == SameFileBoundary(filtered_data, n)
        IN  InFile(e) =>
              IF b = 0
              THEN writes[n].content = SpanText(e, e.line[1], Len(LinesOf(e)))
              ELSE HasLine(filtered_data[b]) =>
                     writes[n].content =
                         SpanText(e, e.line[1], filtered_data[b].line[1] - 1)

\* the end of record i's scope: its boundary, or the place after the list
ScopeEnd(F, i) == IF Boundary(F, i) = 0 THEN Len(F) + 1 ELSE Boundary(F, i)

\* the pairs (i, k) of a record with a file and a record of its scope that
\* has another file
HazardPairs(F) ==
    {pr \in (1..Len(F)) \X (1..Len(F)) :
        /\ pr[1] < pr[2]
        /\ pr[2] < ScopeEnd(F, pr[1])
        /\ F[pr[1]].file # NoFile
        /\ F[pr[2]].file # NoFile
        /\ F[pr[2]].file # F[pr[1]].file}

\* issue n reports record pr[1] for the file (and line) of record pr[2]
Reports(F, n, pr) ==
    /\ issues[n].index = pr[1]
    /\ issues[n].entry = F[pr[1]]
    /\ issues[n].affected_file = F[pr[2]].file
    /\ issues[n].affected_line = F[pr[2]].line

\* C3: the validator returns exactly one issue for every pair (i, k),
\* i < k < j(i), of a record i with a file and a record k with another
\* file, and no other issue; the issues are ordered by i, then by k, each
\* names record i and k's file.  (In the layouts validated the line of a
\* record is its place in the caller's list, so the line identifies k.)
C3_ValidatorIssues ==
    pc = "validated" =>
        /\ Len(issues) = Cardinality(HazardPairs(filtered_data))
        /\ \A pr \in HazardPairs(filtered_data) :
               \E n \in 1..Len(issues) : Reports(filtered_data, n, pr)
        /\ \A n \in 1..Len(issues) :
               /\ \E pr \in HazardPairs(filtered_data) : Reports(filtered_data, n, pr)
               /\ issues[n].severity = "warning"
        /\ \A n, m \in 1..Len(issues) :
               n < m =>
                 \/ issues[n].index < issues[m].index
                 \/ /\ issues[n].index = issues[m].index
                    /\ issues[n].affected_line[1] < issues[m].affected_line[1]

\* the layout A(chapter, f1) B(section, f1) C(section, f2) D(chapter, f1)
\* validated: one issue, for A, naming f2
C3_Witness ==
    /\ pc = "validated"
    /\ Len(filtered_data) = 4
    /\ [k \in 1..4 |-> filtered_data[k].level]
           = <<"chapter", "section", "section", "chapter">>
    /\ [k \in 1..4 |-> filtered_data[k].file] = <<A_tex, A_tex, B_tex, A_tex>>
    /\ Len(issues) = 1
    /\ issues[1].index = 1
    /\ issues[1].affected_file = B_tex

\* the name allocated to the n-th file written, without the extension
NameOf(n) ==
    LET name == writes[n].path[Len(writes[n].path)]
    IN  SubSeq(name, 1, Len(name) - Len(Tex))

\* the files of the output directory
OutputFiles == {f \in DOMAIN fs : IsProperPrefix(FileKey(output_dir), f)}

\* C4: within one split call the allocated output filenames are pairwise
\* distinct, whatever the titles: the number of distinct files written
\* equals the number of filtered records and no output is overwritten.
C4_DistinctFilenames ==
    /\ \A n, m \in 1..Len(writes) :
           n # m => /\ NameOf(n) # NameOf(m)
                    /\ FileKey(writes[n].path) # FileKey(writes[m].path)
    /\ \A n \in 1..Len(writes) :
           /\ FileKey(writes[n].path) \in OutputFiles
           /\ fs[FileKey(writes[n].path)].lines = writes[n].content
    /\ pc = "done" => Cardinality(OutputFiles) = Len(filtered_data)

\* titles A, A, A_1: the third name collides with the suffixed second one
C4_Witness ==
    /\ pc = "done"
    /\ [n \in 1..Len(filtered_data) |-> filtered_data[n].title]
           = << <<"A">>, <<"A">>, <<"A", "_", "1">> >>
    /\ [n \in 1..Len(writes) |-> NameOf(n)]
           = << <<"A">>, <<"A", "_", "1">>, <<"A", "_", "1", "_", "1">> >>
    /\ Cardinality(OutputFiles) = 3

\* the base name of a record: its sanitized title, or <level>_<number>
\* when that is empty
BaseOf(e) ==
    IF SanitizeFilename(e.title) = <<>>
    THEN LevelChars(e.level) \o <<"_">> \o e.number
    ELSE SanitizeFilename(e.title)

\* how many records before the n-th have its base name
Earlier(F, n) == Cardinality({q \in 1..(n - 1) : BaseOf(F[q]) = BaseOf(F[n])})

Suffixed(base, m) == IF m = 0 THEN base ELSE base \o <<"_">> \o Decimal(m)

\* C5 as stated: of the records with one base name B the first is named
\* B and the m-th later one B_m, whatever other records the list holds.
C5_SuffixInOrder ==
    \A n \in 1..Len(writes) :
        NameOf(n) = Suffixed(BaseOf(filtered_data[n]), Earlier(filtered_data, n))

\* the names B, B_1, B_2, ... that an earlier record of another base name holds
TakenByOthers(F, n) ==
    {NameOf(q) : q \in {r \in 1..(n - 1) : BaseOf(F[r]) # BaseOf(F[n])}}
        \cap {Suffixed(BaseOf(F[n]), m) : m \in 0..Len(F)}

\* C5 amended: of the records with one base name B the first is named B
\* and the m-th later one B_m, as long as no earlier record with another
\* base name has been given one of the names B, B_1, B_2, ...
C5_SuffixInOrderUnlessTaken ==
    \A n \in 1..Len(writes) :
        TakenByOthers(filtered_data, n) = {} =>
            NameOf(n) = Suffixed(BaseOf(filtered_data[n]), Earlier(filtered_data, n))

\* three records of one base name, written as B, B_1, B_2
C5_Witness ==
    /\ pc = "done"
    /\ Len(writes) = 3
    /\ \A n \in 1..3 : BaseOf(filtered_data[n]) = <<"A", "_", "1">>
    /\ filtered_data[1].title # filtered_data[2].title
    /\ [n \in 1..3 |-> NameOf(n)]
           = << <<"A", "_", "1">>, <<"A", "_", "1", "_", "1">>,
                <<"A", "_", "1", "_", "2">> >>

\* the places of the caller's list that hold no subsection
Kept == {q \in 1..Len(data) : data[q].level # "subsection"}

\* the n-th smallest element of a set of numbers
Nth(S, n) == CHOOSE x \in S : Cardinality({y \in S : y <= x}) = n

\* C6: with include_subsections false split processes exactly the records
\* whose level is not subsection, in their order, and writes no file for
\* a subsection; every other level passes; with it true every record is
\* processed.
C6_SubsectionFilter ==
    pc \in {"loop", "done"} =>
        /\ include_subsections => filtered_data = data
        /\ ~include_subsections =>
               /\ Len(filtered_data) = Cardinality(Kept)
               /\ \A n \in 1..Len(filtered_data) : filtered_data[n] = data[Nth(Kept, n)]
        /\ Len(writes) = idx - 1
        /\ pc = "done" => Len(writes) = Len(filtered_data)
        /\ \A n \in 1..Len(writes) :
               /\ writes[n].content =
                      ExtractSectionContent(SourceTree, SourceOrder,
                                            filtered_data[n], filtered_data, n).text
               /\ ~include_subsections => filtered_data[n].level # "subsection"

\* a list with a subsection between a paragraph and a chapter, split
\* without subsections: two files
C6_Witness ==
    /\ pc = "done"
    /\ ~include_subsections
    /\ [n \in 1..Len(data) |-> data[n].level] = <<"paragraph", "subsection", "chapter">>
    /\ [n \in 1..Len(filtered_data) |-> filtered_data[n].level]
           = <<"paragraph", "chapter">>
    /\ Len(writes) = 2

\* the record cannot be extracted: no file or line, a file that does not
\* exist or cannot be read, or a line outside 1..(number of lines)
Faulty(e) == ~InFile(e)

\* a text of comment lines only
CommentOnly(text) ==
    /\ text # <<>>
    /\ \A l \in 1..Len(text) :
           /\ text[l] # <<>>
           /\ \A t \in 1..Len(text[l]) : text[l][t].k = "comment"

\* C7: a record that cannot be extracted gets a comment-only placeholder
\* and nothing is raised: split writes one file for it and goes on to
\* the later records.  (The call raises only when the output directory
\* cannot be created, before any record is processed.)
C7_FailureDegrades ==
    /\ pc = "raised" => MkdirRaises(SourceTree, output_dir) /\ writes = <<>>
    /\ pc \in {"loop", "done"} => Len(writes) = idx - 1
    /\ pc = "done" => Len(writes) = Len(filtered_data)
    /\ \A n \in 1..Len(writes) :
           /\ Faulty(filtered_data[n]) => CommentOnly(writes[n].content)
           /\ FileKey(writes[n].path) \in DOMAIN fs
           /\ \A m \in 1..Len(writes) : m # n => writes[m].path # writes[n].path

\* a record with a line past the end of its file, then one that is
\* extracted: a placeholder, then source text
C7_Witness ==
    /\ pc = "done"
    /\ Len(writes) = 3
    /\ filtered_data[1].file = A_tex
    /\ filtered_data[1].line = Some(LongestFile + 1)
    /\ filtered_data[2].file = U_tex
    /\ CommentOnly(writes[1].content)
    /\ CommentOnly(writes[2].content)
    /\ ~Faulty(filtered_data[3])
    /\ ~CommentOnly(writes[3].content)

\* the file of the record is neither under the project root as named nor
\* found by the search for its name
Unresolved(e) ==
    /\ e.file # NoFile
    /\ ~Exists(SourceTree, e.file)
    /\ \/ Len(e.file) # 1
       \/ ~\E f \in DOMAIN SourceTree : UnderBase(f) /\ f[Len(f)] = e.file[1]

\* C8: a record whose file is set but resolves to no existing file gets an
\* output file that holds two comment lines and nothing else: one naming
\* the record, one naming the missing file.
C8_MissingFilePlaceholder ==
    \A n \in 1..Len(writes) :
        LET e == filtered_data[n] IN
        Unresolved(e) =>
            /\ writes[n].content =
                   << <<[k |-> "comment", v |-> <<"% ", e.level, ": ">> \o e.title,
                         p |-> <<>>]>>,
                      <<[k |-> "comment", v |-> <<"% Source file not found: ">>,
                         p |-> e.file]>> >>
            /\ fs[FileKey(writes[n].path)].lines = writes[n].content

\* a record of a missing file has been written
C8_Witness ==
    /\ pc = "done"
    /\ \E n \in 1..Len(writes) :
           /\ filtered_data[n].file = Missing_tex
           /\ Unresolved(filtered_data[n])
           /\ Len(writes[n].content) = 2
           /\ writes[n].content[2][1].p = Missing_tex

\* the titles of the records processed so far
TitlesWritten == {filtered_data[n].title : n \in 1..Len(writes)}

\* the last record processed so far that has the title
LastWith(title) ==
    CHOOSE n \in 1..Len(writes) :
        /\ filtered_data[n].title = title
        /\ \A m \in (n + 1)..Len(writes) : filtered_data[m].title # title

\* C9: when processed records share a title the mapping holds, for that
\* title, the path of the last of them; the files of the earlier ones are
\* written under their own names but are not in the mapping, whose size
\* is the number of distinct titles.
C9_LastTitleWins ==
    pc \in {"loop", "done"} =>
        /\ DictKeys(output_files) = TitlesWritten
        /\ Len(output_files) = Cardinality(TitlesWritten)
        /\ \A t \in TitlesWritten : DictGet(output_files, t) = writes[LastWith(t)].path
        /\ \A n \in 1..Len(writes) :
               /\ FileKey(writes[n].path) \in DOMAIN fs
               /\ n # LastWith(filtered_data[n].title) =>
                      /\ writes[n].path # writes[LastWith(filtered_data[n].title)].path
                      /\ \A q \in 1..Len(output_files) :
                             output_files[q].value # writes[n].path

\* three records, the first and the last with one title: two entries
C9_Witness ==
    /\ pc = "done"
    /\ Len(writes) = 3
    /\ filtered_data[1].title = filtered_data[3].title
    /\ filtered_data[2].title # filtered_data[1].title
    /\ Len(output_files) = 2
    /\ DictGet(output_files, filtered_data[1].title) = writes[3].path

FileAt(files, n) == files[FileKey(writes[n].path)]

\* C11: after a second call of split with the same records, project root and
\* output directory, every output file holds what it held after the first
\* call, and the mapping returned is the same.
C11_SplitIdempotent ==
    (pc = "done" /\ before # None) =>
        /\ output_files = before[1].output_files
        /\ \A n \in 1..Len(writes) :
               /\ FileKey(writes[n].path) \in DOMAIN before[1].fs
               /\ FileAt(fs, n) = FileAt(before[1].fs, n)

\* C12: after a call of split every source file of the project holds what it
\* held before, and every other file is an output file of a call.
C12_SourcesUntouched ==
    /\ \A f \in DOMAIN SourceTree : f \in DOMAIN fs /\ fs[f] = SourceTree[f]
    /\ (pc = "done" /\ before = None) =>
           \A f \in DOMAIN fs \ DOMAIN SourceTree :
               \E n \in 1..Len(writes) : f = FileKey(writes[n].path)

SpanOf(n) ==
    ContentLines(ReadLines(IncludeTree, filtered_data[n].file), filtered_data[n],
                 filtered_data, n)

\* the file a directive line names, seen from the file that holds the line
TargetOf(line, current_file) ==
    FindFilePath(IncludeTree, IncludeOrder, InputFile(line), Some(current_file))

\* a directive whose file is found and can be read
Resolvable(line, current_file) ==
    /\ InputMatch(line) # 0
    /\ TargetOf(line, current_file) # None
    /\ FileKey(TargetOf(line, current_file)[1]) \in DOMAIN IncludeTree
    /\ IncludeTree[FileKey(TargetOf(line, current_file)[1])].readable

RECURSIVE PathGuardedLines(_, _, _, _)
PathGuardedLines(lines, current_file, depth, path) ==
    IF lines = <<>> THEN <<>>
    ELSE
      LET line == lines[1]
          file == TargetOf(line, current_file)[1]
          here ==
            IF depth > 10 \/ ~Resolvable(line, current_file) \/ FileKey(file) \in path
            THEN <<line>>
            ELSE <<MarkerLine(IF EndsWithTex(file) THEN DropTex(file) ELSE file)>>
                     \o PathGuardedLines(ReadLines(IncludeTree, file), file, depth + 1,
                                         path \cup {FileKey(file)})
      IN  here \o PathGuardedLines(Tail(lines), current_file, depth, path)

\* C14: in the content of a record no file is inlined inside its own
\* expansion: a directive that names, by whatever path text, a file being
\* expanded on the active recursion path is emitted unchanged.
C14_NoReentry ==
    \A n \in 1..Len(writes) :
        writes[n].content =
            JoinLines(PathGuardedLines(SpanOf(n), filtered_data[n].file, 0, {}))

\* C15: the file of the record is on the active path from the start: a
\* directive in the record's span that names the record's own file is left
\* unexpanded.
C15_OwnFileNotInlined ==
    \A n \in 1..Len(writes) :
        writes[n].content =
            JoinLines(PathGuardedLines(SpanOf(n), filtered_data[n].file, 0,
                                       {FileKey(filtered_data[n].file)}))

\* the guard set once the first k lines of record n's span are expanded
GuardAfter(n, k) ==
    ExpandLines(IncludeTree, IncludeOrder, SubSeq(SpanOf(n), 1, k),
                filtered_data[n].file, 0, {}).processed

\* each line of the span expanded on its own, with an empty guard set
RECURSIVE EachLineAlone(_, _)
EachLineAlone(lines, current_file) ==
    IF lines = <<>> THEN <<>>
    ELSE ExpandInputs(IncludeTree, IncludeOrder, lines[1], current_file, 0, {}).lines
             \o EachLineAlone(Tail(lines), current_file)

\* C16 as stated: the guard set is empty between two top-level lines,
\* however the expansions before have ended.
C16_GuardReleased ==
    \A n \in 1..Len(writes) : \A k \in 0..Len(SpanOf(n)) : GuardAfter(n, k) = {}

\* C16: between two top-level lines the guard set holds nothing but
\* directives whose file was found and could not be read, and every
\* top-level line is expanded as it is with an empty guard set: a file
\* inlined before is inlined again.
C16_GuardReleasedUnlessReadFails ==
    \A n \in 1..Len(writes) :
        /\ \A k \in 0..Len(SpanOf(n)) : \A t \in GuardAfter(n, k) :
               /\ FindFilePath(IncludeTree, IncludeOrder, t, None) # None
               /\ ~Readable(IncludeTree,
                            FindFilePath(IncludeTree, IncludeOrder, t, None)[1])
        /\ writes[n].content =
               JoinLines(EachLineAlone(SpanOf(n), filtered_data[n].file))

\* the chapter of w.tex: c.tex is inlined on the first and on the third
\* line, and the unreadable u.tex of the second line is left in the guard
C16_Witness ==
    /\ pc = "done"
    /\ \E n \in 1..Len(writes) :
        /\ filtered_data[n].file = W_tex
        /\ GuardAfter(n, 1) = {}
        /\ GuardAfter(n, 4) = {U_tex}
        /\ writes[n].content =
               <<MarkerLine(<< <<"c">> >>), Txt("c1"), Input(<< <<"u">> >>),
                 MarkerLine(<< <<"c">> >>), Txt("c1"), Input(<< <<"m">> >>)>>

\* the last file of the chain inlined into a record of file j: the 11th
\* after it, or the end of the chain
LastInlined(j) == Min(j + 11, MaxChain)

\* C17: a record of the chain's file j spans the directive of that file at
\* depth 0; its content is the markers of the next 11 files of the chain,
\* each inlined by the directive of the one before, and then the line of
\* the 11th, at depth 11, unchanged.  A chain that ends earlier is inlined
\* to its end.
C17_DepthCap ==
    \A n \in 1..Len(writes) :
        LET e == filtered_data[n]
            j == ChainIndex(e.file)
        IN  ContentLines(ReadLines(ChainTree, e.file), e, filtered_data, n) # <<>> =>
              writes[n].content =
                [i \in 1..(LastInlined(j) - j) |-> MarkerLine(<<ChainName(j + i)>>)]
                    \o ReadLines(ChainTree, ChainFile(LastInlined(j)))

\* the record of n0.tex is written: 11 files inlined, and the directive in
\* the 11th left as it is though its file exists
C17_Witness ==
    /\ pc = "done"
    /\ \E n \in 1..Len(writes) :
        /\ filtered_data[n].file = ChainFile(0)
        /\ Len(writes[n].content) = 12
        /\ writes[n].content[11] = MarkerLine(<<ChainName(11)>>)
        /\ writes[n].content[12] = Input(<<ChainName(12)>>)
        /\ ChainFile(12) \in DOMAIN fs

\* the lines of a span with every directive that cannot be resolved or read
\* kept as it is, and every other line expanded
RECURSIVE KeptWhereUnresolved(_, _)
KeptWhereUnresolved(lines, current_file) ==
    IF lines = <<>> THEN <<>>
    ELSE (IF InputMatch(lines[1]) # 0 /\ ~Resolvable(lines[1], current_file)
          THEN <<lines[1]>>
          ELSE ExpandInputs(IncludeTree, IncludeOrder, lines[1], current_file,
                            0, {}).lines)
             \o KeptWhereUnresolved(Tail(lines), current_file)

\* C18: a directive of a record's span whose file is not found, or is
\* found and cannot be read, stands in the content as the line it was, at
\* its place, with no marker; the lines around it are expanded as without
\* it.
C18_UnresolvedKept ==
    \A n \in 1..Len(writes) :
        writes[n].content =
            JoinLines(KeptWhereUnresolved(SpanOf(n), filtered_data[n].file))

\* the chapter of w.tex is written: \input{u} (unreadable) and \input{m}
\* (missing) stand between and after the inlined c.tex
C18_Witness ==
    /\ pc = "done"
    /\ \E n \in 1..Len(writes) :
        /\ filtered_data[n].file = W_tex
        /\ SpanOf(n) = ReadLines(IncludeTree, W_tex)
        /\ ~Resolvable(SpanOf(n)[2], W_tex)
        /\ ~Resolvable(SpanOf(n)[4], W_tex)
        /\ writes[n].content[3] = SpanOf(n)[2]
        /\ writes[n].content[6] = SpanOf(n)[4]
        /\ Len(writes[n].content) = 6

\* where the file of a directive may be: next to the file that holds the
\* directive, under the project root, or anywhere by its name
NextTo(line, current_file) == PurePath(Parent(current_file) \o InputFile(line))

UnderRoot(line) == PurePath(InputFile(line))

ByName(line) ==
    IF Len(InputFile(line)) = 1
          /\ RGlob(IncludeTree, IncludeOrder, InputFile(line)[1]) # <<>>
    THEN Some(RGlob(IncludeTree, IncludeOrder, InputFile(line)[1])[1])
    ELSE None

\* the file taken, with the place next to the including file tried first
\* (near) or not tried at all
Chosen(line, current_file, near) ==
    IF near /\ IsFile(IncludeTree, NextTo(line, current_file))
    THEN Some(NextTo(line, current_file))
    ELSE IF IsFile(IncludeTree, UnderRoot(line)) THEN Some(UnderRoot(line))
    ELSE ByName(line)

\* the lines of a span, each directive replaced by the marker and the
\* expanded lines of the file chosen for it
RECURSIVE InlinedFromChosen(_, _, _)
InlinedFromChosen(lines, current_file, near) ==
    IF lines = <<>> THEN <<>>
    ELSE
      LET line == lines[1]
          file == Chosen(line, current_file, near)[1]
      IN  (IF /\ InputMatch(line) # 0
              /\ Chosen(line, current_file, near) # None
              /\ IncludeTree[FileKey(file)].readable
           THEN <<MarkerLine(DropTex(file))>>
                    \o ExpandLines(IncludeTree, IncludeOrder,
                                   ReadLines(IncludeTree, file), file, 1,
                                   {InputFile(line)}).lines
           ELSE <<line>>)
              \o InlinedFromChosen(Tail(lines), current_file, near)

RECURSIVE Concatenated(_)
Concatenated(k) ==
    IF k = 0 THEN <<>> ELSE Concatenated(k - 1) \o writes[k].content

\* every record is in the file of the first, which holds its line, and the
\* records follow each other down the file
OneFileInOrder(F) ==
    /\ F # <<>>
    /\ \A n \in 1..Len(F) : InFile(F[n]) /\ F[n].file = F[1].file
    /\ \A n \in 1..(Len(F) - 1) : F[n].line[1] < F[n + 1].line[1]

\* no record is followed by a record of a deeper rank
NoneNested(F) ==
    \A n \in 1..(Len(F) - 1) : SpecRank(F[n + 1].level) <= SpecRank(F[n].level)

\* C20 as stated: when the records of a call lie in one file, in order,
\* the output files of the call, concatenated, are the file from the first
\* record's line on, \input expanded, every line once.
C20_RoundTrip ==
    (pc = "done" /\ OneFileInOrder(filtered_data)) =>
        Concatenated(Len(writes)) =
            SpanText(filtered_data[1], filtered_data[1].line[1],
                     Len(LinesOf(filtered_data[1])))

\* C20: the same, for records none of which is followed by a deeper one
\* (the content of a record holds the records nested in it, which are
\* written again in their own files).
C20_RoundTripUnnested ==
    (pc = "done" /\ OneFileInOrder(filtered_data) /\ NoneNested(filtered_data)) =>
        Concatenated(Len(writes)) =
            SpanText(filtered_data[1], filtered_data[1].line[1],
                     Len(LinesOf(filtered_data[1])))

\* two records of a.tex, the second not deeper than the first, the first
\* on line 1: their files hold line 1 and lines 2 to 3, \input expanded
C20_Witness ==
    /\ pc = "done"
    /\ Len(filtered_data) = 2
    /\ OneFileInOrder(filtered_data) /\ NoneNested(filtered_data)
    /\ filtered_data[1].file = A_tex
    /\ filtered_data[1].line = Some(1)
    /\ filtered_data[2].line = Some(2)
    /\ writes[1].content = <<Txt("a1")>>
    /\ writes[2].content = <<MarkerLine(<< <<"c">> >>), Txt("c1"), Txt("a3")>>

(***************************************************************************)
(* C21.  Validation is advisory only: a call of split with validate on and *)
(* a call with validate off, on the same records, project and output       *)
(* directory, write the same files with the same contents and return the   *)
(* same mapping, however many issues are found; neither call raises.       *)
(* (before holds the files and the mapping after the first of two calls    *)
(* that differ in validate only.)                                          *)
(***************************************************************************)
WrittenPaths == {FileKey(writes[n].path) : n \in 1..Len(writes)}

C21_ValidationAdvisory ==
    before # None =>
        /\ pc # "raised"
        /\ pc = "done" =>
               /\ fs = before[1].fs
               /\ output_files = before[1].output_files
               /\ WrittenPaths = DOMAIN fs \ DOMAIN SourceTree

C21_Witness ==
    /\ pc = "done"
    /\ before # None
    /\ validate
    /\ Len(issues) >= 2
    /\ Len(writes) >= 2

(***************************************************************************)
(* C22.  Every issue returned by validate_structure(data,                  *)
(* include_subsections) carries in 'index' the place of its entry in the   *)
(* list the caller passed: data[issue.index] is issue.entry, with          *)
(* include_subsections false as well as true.                              *)
(***************************************************************************)
C22_IndexInCallerList ==
    pc = "validated" =>
        \A n \in 1..Len(issues) :
            /\ issues[n].index \in 1..Len(data)
            /\ data[issues[n].index] = issues[n].entry

(***************************************************************************)
(* C23.  Dependency collection terminates on circular inclusion: a call of *)
(* collect_dependencies on a project whose files \input or \include each   *)
(* other in a cycle returns; within one call each normalized path is       *)
(* parsed at most once; a directive that names a path already in           *)
(* processed_files is recorded as an entry and not walked again, so that   *)
(* the list returned holds one entry for each directive of each path       *)
(* parsed.                                                                 *)
(***************************************************************************)
\* the directives of the file at a path, counted as the code's patterns do
DirectiveCount(file_path) ==
    IF FileKey(file_path) \in DOMAIN fs
    THEN Cardinality({n \in 1..Len(fs[FileKey(file_path)].lines) :
                         \E t \in 1..Len(fs[FileKey(file_path)].lines[n]) :
                             fs[FileKey(file_path)].lines[n][t].k \in {"inp", "inc", "pkg"}})
    ELSE 0

EntriesFrom(file_path) ==
    Cardinality({n \in 1..Len(dependencies) :
                    dependencies[n].included_from = file_path})

ParsedOnce ==
    /\ \A m, n \in 1..Len(parsed) : parsed[m] = parsed[n] => m = n
    /\ {parsed[n] : n \in 1..Len(parsed)} = processed_files
    /\ cpc = "returned" =>
           /\ \A n \in 1..Len(parsed) : EntriesFrom(parsed[n]) = DirectiveCount(parsed[n])
           /\ \A n \in 1..Len(dependencies) :
                  dependencies[n].included_from \in processed_files

C23_CollectTerminates ==
    /\ []ParsedOnce
    /\ (cpc = "running") ~> (cpc = "returned")

\* a cycle has been walked: an entry names a path that had been parsed
\* before the entry was made, and the call has returned
C23_Witness ==
    /\ cpc = "returned"
    /\ Len(parsed) >= 3
    /\ \E n \in 1..Len(dependencies) :
           /\ dependencies[n].file_path = parsed[1]
           /\ dependencies[n].included_from # parsed[1]
           /\ dependencies[n].include_type = "input"

(***************************************************************************)
(* C24.  Soundness of a reported hazard: when the validator emits an issue *)
(* for record i that names a nested record k of another file, the text     *)
(* written for i does not hold the line of k's section command, also when  *)
(* i's file pulls k's file in with \input.                                 *)
(***************************************************************************)
\* the nested record an issue names
Affected(issue) == [file |-> issue.affected_file, line |-> issue.affected_line]

\* the text holds the line at which the record's section command stands
HoldsLineOf(text, e) ==
    \E n \in 1..Len(text) : text[n] = LinesOf(e)[e.line[1]]

\* the text holds the expansion marker of the record's file
InlinesFileOf(text, e) ==
    \E n \in 1..Len(text) :
        /\ text[n] # <<>>
        /\ text[n][1].k = "marker"
        /\ AddTex(text[n][1].p) = SourceOf(e)[1]

C24_HazardSound ==
    pc = "done" =>
        \A n \in 1..Len(issues) :
            InFile(Affected(issues[n])) =>
                ~HoldsLineOf(writes[issues[n].index].content, Affected(issues[n]))

\* C24 as the code has it: the line of k is absent from the text written
\* for i unless k's file is the file i is extracted from under another path
\* text, or the text of i holds the expansion of k's file.
C24_HazardSoundUnlessInlined ==
    pc = "done" =>
        \A n \in 1..Len(issues) :
            (/\ InFile(Affected(issues[n]))
             /\ SourceOf(Affected(issues[n])) # SourceOf(issues[n].entry)
             /\ ~InlinesFileOf(writes[issues[n].index].content, Affected(issues[n])))
                => ~HoldsLineOf(writes[issues[n].index].content, Affected(issues[n]))

\* an issue names a record of a file that the source of i does not pull in,
\* and another names a record of a file that it does
C24_Witness ==
    /\ pc = "done"
    /\ \E n \in 1..Len(issues) :
           /\ InFile(issues[n].entry)
           /\ InFile(Affected(issues[n]))
           /\ SourceOf(Affected(issues[n])) # SourceOf(issues[n].entry)
           /\ ~InlinesFileOf(writes[issues[n].index].content, Affected(issues[n]))
           /\ Len(writes[issues[n].index].content) >= 3
    /\ \E n \in 1..Len(issues) :
           InlinesFileOf(writes[issues[n].index].content, Affected(issues[n]))

(***************************************************************************)
(* C25.  The boundary scans of the validator and of the extractor agree:   *)
(* for every record list and every index i, the record at which the        *)
(* extractor's scan for the end of the section stops (the first later      *)
(* record of rank <= rank(i), or none) is the record that bounds the       *)
(* validator's scope for i, and the validator, in the branch with a bound  *)
(* and in the branch without, examines exactly the records strictly        *)
(* between i and the bound (the end of the list when there is none).       *)
(* The scans are read off their results on the list with the positions     *)
(* replaced: the end line the extractor finds when record k stands at line *)
(* k + 1 of one file, and the issues the validator reports when every      *)
(* record but i is in another file.                                        *)
(***************************************************************************)
AllInOneFile(F) ==
    [k \in 1..Len(F) |-> [F[k] EXCEPT !.file = A_tex, !.line = Some(k + 1)]]

AllElsewhere(F, i) ==
    [k \in 1..Len(F) |->
        [F[k] EXCEPT !.file = IF k = i THEN A_tex ELSE B_tex, !.line = Some(k)]]

\* the record at which the extractor's scan stops, 0 when it runs to the end
ExtractorStop(F, i) ==
    LET end_line == FindEndLine(AllInOneFile(F)[i], AllInOneFile(F), i + 1, Len(F) + 1)
    IN  IF end_line = Len(F) + 1 THEN 0 ELSE end_line

\* the records the validator reports for i when each one it examines is a hazard
ValidatorExamined(F, i) ==
    {EntryIssues(AllElsewhere(F, i), i)[n].affected_line[1] :
        n \in 1..Len(EntryIssues(AllElsewhere(F, i), i))}

C25_ScansAgree ==
    pc = "validated" =>
        \A i \in 1..Len(filtered_data) :
            /\ ExtractorStop(filtered_data, i) = NextSameLevelIndex(filtered_data, i, i + 1)
            /\ ExtractorStop(filtered_data, i) = Boundary(filtered_data, i)
            /\ ValidatorExamined(filtered_data, i) =
                  IF ExtractorStop(filtered_data, i) = 0
                  THEN (i + 1)..Len(filtered_data)
                  ELSE (i + 1)..(ExtractorStop(filtered_data, i) - 1)

\* a list with a record bounded after deeper records and a record that is
\* not bounded and has deeper records after it
C25_Witness ==
    /\ pc = "validated"
    /\ \E i \in 1..Len(filtered_data) :
           /\ ExtractorStop(filtered_data, i) > i + 1
           /\ ValidatorExamined(filtered_data, i) # {}
    /\ \E i \in 1..Len(filtered_data) :
           /\ ExtractorStop(filtered_data, i) = 0
           /\ ValidatorExamined(filtered_data, i) # {}

(***************************************************************************)
(* C26.  A line that holds an expandable \input{p} is replaced as a whole: *)
(* the output holds the marker comment and then the expanded lines of the  *)
(* target, and nothing else of the line.  Only the first \input{...} of    *)
(* the line is considered: text before and after it and a second           *)
(* directive on the line do not appear, and when the first directive       *)
(* cannot be expanded the line stays as it is.                             *)
(***************************************************************************)
\* the places of the \input{...} directives of a line
Directive(line) == {t \in 1..Len(line) : line[t].k = "inp"}

\* what the lines of a file of the project give, directive lines replaced;
\* depth bounds the nesting of the project's files
RECURSIVE ReplacedLines(_, _)
ReplacedLines(lines, depth) ==
    IF lines = <<>> \/ depth = 0 THEN lines
    ELSE LET line == lines[1]
             target == << line[Least(Directive(line))].p[1] \o Tex >>
         IN  (IF Directive(line) # {} /\ target \in DOMAIN MixedTree
              THEN << <<[k |-> "marker", v |-> <<>>,
                         p |-> line[Least(Directive(line))].p]>> >>
                       \o ReplacedLines(MixedTree[target].lines, depth - 1)
              ELSE <<line>>)
             \o ReplacedLines(Tail(lines), depth)

\* the source lines of record n of mix.tex, up to its boundary
MixedSpan(n) ==
    LET b == Boundary(filtered_data, n)
        last == IF b # 0 THEN filtered_data[b].line[1] - 1 ELSE Len(MixedTree[Mix_tex].lines)
    IN  SubSeq(MixedTree[Mix_tex].lines, filtered_data[n].line[1], last)

C26_LineReplacedWhole ==
    \A n \in 1..Len(writes) :
        writes[n].content = JoinLines(ReplacedLines(MixedSpan(n), 3))

\* a record whose span starts with the line "pre \input{c} post": its text
\* starts with the marker and the lines of c.tex, and holds neither "pre"
\* nor "post"; and a record whose span holds the line whose first directive
\* does not resolve
C26_Witness ==
    /\ pc = "done"
    /\ \E n \in 1..Len(writes) :
           /\ filtered_data[n].line = Some(1)
           /\ Len(writes[n].content) >= 5
           /\ writes[n].content[1][1].k = "marker"
           /\ writes[n].content[2] = Txt("c1")
           /\ \A m \in 1..Len(writes[n].content) :
                  writes[n].content[m] \notin {Txt("pre"), Txt("post")}
    /\ \E n \in 1..Len(writes) :
           \E m \in 1..Len(writes[n].content) :
               writes[n].content[m] = MixedTree[Mix_tex].lines[3]

(***************************************************************************)
(* C27.  Subsection records do not interfere with the output of chapters   *)
(* and sections: the content written for a record of level chapter or      *)
(* section is the same with include_subsections true and false; only a     *)
(* record of unrecognized level (rank 99) can have another span when the   *)
(* subsections are filtered out.  (before holds the writes of the first of *)
(* two calls that differ in include_subsections only.)                     *)
(***************************************************************************)
\* the place of data[j] among the records that are not subsections
PlaceAmongKept(j) ==
    Cardinality({k \in 1..j : data[k].level # "subsection"})

\* the content written for data[j] by the call that kept the subsections and
\* by the call that dropped them
ContentWithSubsections(j) ==
    IF include_subsections THEN writes[j].content ELSE before[1].writes[j].content

ContentWithoutSubsections(j) ==
    IF include_subsections
    THEN before[1].writes[PlaceAmongKept(j)].content
    ELSE writes[PlaceAmongKept(j)].content

C27_SubsectionsDoNotInterfere ==
    (pc = "done" /\ before # None) =>
        \A j \in 1..Len(data) :
            (data[j].level # "subsection" /\ SpecRank(data[j].level) # 99) =>
                ContentWithSubsections(j) = ContentWithoutSubsections(j)

\* a section with a subsection further down its file has the same content
\* in both calls, and a record of unrecognized level followed by a
\* subsection has not
C27_Witness ==
    /\ pc = "done"
    /\ before # None
    /\ \E j \in 1..Len(data), k \in 1..Len(data) :
           /\ j < k
           /\ data[j].level = "section"
           /\ data[k].level = "subsection"
           /\ data[k].line[1] > data[j].line[1]
           /\ ContentWithSubsections(j) = ContentWithoutSubsections(j)
           /\ Len(ContentWithSubsections(j)) >= 2
    /\ \E j \in 1..Len(data) :
           /\ SpecRank(data[j].level) = 99
           /\ ContentWithSubsections(j) # ContentWithoutSubsections(j)

(***************************************************************************)
(* C28.  Every file name allocated by split, before the extension is       *)
(* appended, is non-empty and holds no space and none of the characters    *)
(* < > : " / \ | ? *, for every record: also when the title sanitizes to   *)
(* the empty string and the name falls back to level and number.           *)
(***************************************************************************)
C28_FilenamesValid ==
    \A name \in filename_counts :
        /\ name # <<>>
        /\ \A n \in 1..Len(name) :
               name[n] \notin {" ", "<", ">", ":", "\"", "/", "\\", "|", "?", "*"}

(***************************************************************************)
(* C29.  Inverted boundary: when the bounding record of i (the first later *)
(* record of rank <= rank(i)) is in i's file and has a line number less    *)
(* than or equal to i.line, the extraction of i neither fails nor gives a  *)
(* placeholder: the span is empty and the text is a single newline, which  *)
(* does not hold the line of i's own section command.  Line numbers are    *)
(* 1-based: a boundary recorded at line 0 counts as one without a line.    *)
(***************************************************************************)
Inverted(F, n) ==
    /\ InFile(F[n])
    /\ Boundary(F, n) # 0
    /\ F[Boundary(F, n)].file = F[n].file
    /\ HasLine(F[Boundary(F, n)])
    /\ F[Boundary(F, n)].line[1] <= F[n].line[1]

C29_InvertedBoundaryEmpty ==
    \A n \in 1..Len(writes) :
        Inverted(filtered_data, n) => writes[n].content = << <<>> >>

\* a record bounded by a record at its own line and one bounded by a record
\* at an earlier line have been written
C29_Witness ==
    /\ pc = "done"
    /\ \E n \in 1..Len(writes) :
           /\ Inverted(filtered_data, n)
           /\ filtered_data[Boundary(filtered_data, n)].line = filtered_data[n].line
    /\ \E n \in 1..Len(writes) :
           /\ Inverted(filtered_data, n)
           /\ filtered_data[Boundary(filtered_data, n)].line[1] < filtered_data[n].line[1]

(***************************************************************************)
(* C30.  _find_brace_end(text, start), with start the position just after  *)
(* an opening brace, returns the index of the closing brace that matches   *)
(* that opening brace, nested pairs of braces in between counted, and      *)
(* returns -1 exactly when the text ends before the depth is back at zero. *)
(***************************************************************************)
\* opening minus closing braces at the 0-based positions a..b of the text
Surplus(t, a, b) ==
    Cardinality({n \in a..b : t[n + 1] = "{"})
        - Cardinality({n \in a..b : t[n + 1] = "}"})

\* position m closes the brace opened just before position a: from a to m
\* one closing brace more than opening ones, and never before m
Closes(t, a, m) ==
    /\ t[m + 1] = "}"
    /\ Surplus(t, a, m) = -1
    /\ \A n \in a..(m - 1) : Surplus(t, a, n) >= 0

AfterOpeningBrace(t, i) == i \in 1..Len(t) /\ t[i] = "{"

C30_FindBraceEnd ==
    (brace_end # None /\ AfterOpeningBrace(brace_text, start)) =>
        /\ \A m \in start..(Len(brace_text) - 1) :
               Closes(brace_text, start, m) => brace_end[1] = m
        /\ brace_end[1] # -1 =>
               /\ brace_end[1] \in start..(Len(brace_text) - 1)
               /\ Closes(brace_text, start, brace_end[1])
        /\ brace_end[1] = -1 <=>
               \A m \in start..(Len(brace_text) - 1) : Surplus(brace_text, start, m) >= 0

\* a brace matched past a nested pair
C30_Witness ==
    /\ brace_end # None
    /\ AfterOpeningBrace(brace_text, start)
    /\ brace_end[1] >= start + 2
    /\ \E n \in start..(brace_end[1] - 2) : brace_text[n + 1] = "{"
    /\ brace_end[1] < Len(brace_text) - 1

====
